---- MODULE Spec2Model ----
(***************************************************************************)
(* Simulation core of the tower-defence game in src/TDS.py (GameView,      *)
(* Enemy, Tower, Projectile).                                              *)
(*                                                                         *)
(* The world is one-dimensional: the path is a straight line of waypoints  *)
(* TileGap world units apart, towers stand on spots of the same line, and  *)
(* every distance math.sqrt(dx**2 + dy**2) of the source is Abs(dx).       *)
(* One frame is one on_update call; the clock that runs the callbacks of   *)
(* arcade.schedule counts in frames, FramesPerStride of them to the 1.5 s  *)
(* spawn stride.  Health is kept in thousandths so that armour, the tesla  *)
(* falloff and the critical multiplier stay exact.                         *)
(***************************************************************************)
EXTENDS Integers, Sequences, FiniteSets, TLC

(***************************************************************************)
(* Program constants                                                       *)
(***************************************************************************)
STARTING_MONEY_EASY == 300
STARTING_MONEY_NORMAL == 220
STARTING_MONEY_HARD == 180
STARTING_LIVES_EASY == 35
STARTING_LIVES_NORMAL == 25
STARTING_LIVES_HARD == 18
BASE_DAMAGE == 8
\* arrival epsilon of Enemy.update (world units)
ARRIVAL_EPSILON == 2
\* Tower.max_level
MAX_LEVEL == 4
\* update_towers: towers are updated every frame below this many enemies
TOWER_THROTTLE == 20
\* projectile cap of on_update: above PROJECTILE_CAP keep the newest PROJECTILE_KEEP
PROJECTILE_CAP == 100
PROJECTILE_KEEP == 80
\* TILE_SIZE of the source, used to scale ranges and speeds to TileGap
TILE_SIZE == 64

(***************************************************************************)
(* Bounds of the model                                                     *)
(***************************************************************************)
\* frames per spawn stride (1.5 s)
FramesPerStride == 2
\* world units between two waypoints of the path
TileGap == 4
\* enemy health of the source is divided by this
HealthDivisor == 8
\* self.auto_wave_start_delay (WAVE_AUTO_START_DELAY seconds) in frames
AutoDelayFrames == 3
\* critical hits rolled in one match
MaxCrits == 1
\* on_update is not followed further once more projectiles than this are live
MaxProjectiles == 2
\* columns of the small level maps the path construction is tried on
GridCols == 3
\* enemies in front of the tower whose targeting and attack are tried
FieldEnemies == 2

Difficulties == {"easy", "normal", "hard"}
TowerTypes == {"sniper", "artillery", "laser", "rocket", "tesla"}
EnemyTypes == {"slime", "ninja", "tank"}

\* base_waves of generate_waves, cut down to the waves of the model: archetype
\* -> count.  It is the table of a normal match, and the table that the matches
\* of Spec play at every difficulty
ModelWaves ==
  << [slime |-> 1, ninja |-> 1, tank |-> 0],
     [slime |-> 1, ninja |-> 0, tank |-> 1] >>

\* generate_waves for self.difficulty = d: int(count * 0.7) for the positive
\* counts of an easy match, int(count * 2.0) for those of a hard one (the table
\* of the model holds no boss, whose count an easy match lowers by one)
generate_waves(d) ==
  [w \in 1..Len(ModelWaves) |->
     [t \in EnemyTypes |->
        LET count == ModelWaves[w][t]
        IN  IF count <= 0 THEN count
            ELSE IF d = "easy" THEN (7 * count) \div 10
            ELSE IF d = "hard" THEN 2 * count
            ELSE count]]

\* path_points after load_map: a straight corridor of three waypoints
PathPoints == << 0, TileGap, 2 * TileGap >>
\* tower_spots after load_map
TowerSpots == { TileGap, 4 * TileGap }

(***************************************************************************)
(* Arithmetic helpers                                                      *)
(***************************************************************************)
Abs(x) == IF x < 0 THEN -x ELSE x
Sign(x) == IF x < 0 THEN -1 ELSE IF x > 0 THEN 1 ELSE 0
Min(a, b) == IF a < b THEN a ELSE b
Max(a, b) == IF a > b THEN a ELSE b
RECURSIVE Pow(_, _)
Pow(b, n) == IF n = 0 THEN 1 ELSE b * Pow(b, n - 1)
\* list.remove(x): drops the first occurrence of x
RECURSIVE Remove(_, _)
Remove(s, x) ==
  IF s = << >> THEN << >>
  ELSE IF Head(s) = x THEN Tail(s)
  ELSE << Head(s) >> \o Remove(Tail(s), x)
Range(s) == { s[i] : i \in 1..Len(s) }

(***************************************************************************)
(* Enemy (src/TDS.py, class Enemy)                                         *)
(***************************************************************************)
\* difficulty_multiplier of Enemy.__init__, in tenths
DifficultyMultiplier10(d) ==
  CASE d = "easy" -> 13 [] d = "normal" -> 18 [] OTHER -> 25

\* enemy_stats of Enemy.__init__: health is (base + level * inc) * multiplier,
\* bounty is (b + level * k) * f with f in tenths, speed in tenths per frame,
\* armour and evasion in hundredths
EnemyStats(t) ==
  CASE t = "slime" -> [hbase |-> 120, hinc |-> 25, speed10 |-> 9, bbase |-> 12,
                       binc |-> 2, bf10 |-> 7, armor100 |-> 0, evasion100 |-> 0]
    [] t = "orc" -> [hbase |-> 220, hinc |-> 35, speed10 |-> 7, bbase |-> 18,
                     binc |-> 4, bf10 |-> 8, armor100 |-> 0, evasion100 |-> 0]
    [] t = "goblin" -> [hbase |-> 75, hinc |-> 15, speed10 |-> 14, bbase |-> 14,
                        binc |-> 2, bf10 |-> 6, armor100 |-> 0, evasion100 |-> 0]
    [] t = "skeleton" -> [hbase |-> 270, hinc |-> 40, speed10 |-> 10, bbase |-> 25,
                          binc |-> 5, bf10 |-> 9, armor100 |-> 0, evasion100 |-> 0]
    [] t = "knight" -> [hbase |-> 420, hinc |-> 60, speed10 |-> 6, bbase |-> 35,
                        binc |-> 7, bf10 |-> 10, armor100 |-> 0, evasion100 |-> 0]
    [] t = "tank" -> [hbase |-> 500, hinc |-> 80, speed10 |-> 4, bbase |-> 40,
                      binc |-> 8, bf10 |-> 11, armor100 |-> 30, evasion100 |-> 0]
    [] OTHER -> [hbase |-> 90, hinc |-> 20, speed10 |-> 18, bbase |-> 20,
                 binc |-> 3, bf10 |-> 9, armor100 |-> 0, evasion100 |-> 20]

\* int(stats['health']), divided by HealthDivisor, in thousandths
EnemyHealth(t, level, d) ==
  ((((EnemyStats(t).hbase + level * EnemyStats(t).hinc) * DifficultyMultiplier10(d))
      \div 10) \div HealthDivisor) * 1000

\* int(stats['bounty'])
EnemyBounty(t, level) ==
  ((EnemyStats(t).bbase + level * EnemyStats(t).binc) * EnemyStats(t).bf10) \div 10

\* stats['speed'] in whole world units per frame (rounded up)
EnemySpeed(t) == (EnemyStats(t).speed10 + 9) \div 10

\* Enemy(enemy_type, path, level, difficulty) followed by the placement on
\* path[0] that spawn_enemy does
NewEnemy(t, level, d) ==
  [enemy_type |-> t, path_index |-> 0, pos |-> PathPoints[1], level |-> level,
   health |-> EnemyHealth(t, level, d), alive |-> TRUE,
   bounty |-> EnemyBounty(t, level), timer_wave |-> 0]

\* Enemy.update: one frame of movement along the path
EnemyUpdate(e) ==
  IF ~e.alive THEN e
  ELSE IF e.path_index < Len(PathPoints)
  THEN LET dx == PathPoints[e.path_index + 1] - e.pos IN
       IF Abs(dx) > ARRIVAL_EPSILON
       THEN [e EXCEPT !.pos = @ + Sign(dx) * EnemySpeed(e.enemy_type)]
       ELSE [e EXCEPT !.path_index = @ + 1]
  ELSE e

\* Enemy.has_reached_end
has_reached_end(e) == e.path_index >= Len(PathPoints)

\* take_damage that forgets self.alive = False
take_damage_keeps_alive(e, damage, evaded) ==
  IF evaded /\ EnemyStats(e.enemy_type).evasion100 > 0
  THEN [enemy |-> e, died |-> FALSE]
  ELSE LET h == e.health - (damage * (100 - EnemyStats(e.enemy_type).armor100)) \div 100 IN
       [enemy |-> [e EXCEPT !.health = h], died |-> h <= 0]

\* Enemy.take_damage(damage): damage in thousandths; evaded is the outcome of
\* random.random() < self.evasion, possible only with a positive evasion
take_damage(e, damage, evaded) ==
  IF evaded /\ EnemyStats(e.enemy_type).evasion100 > 0
  THEN [enemy |-> e, died |-> FALSE]
  ELSE LET h == e.health - (damage * (100 - EnemyStats(e.enemy_type).armor100)) \div 100 IN
       IF h <= 0
       THEN [enemy |-> [e EXCEPT !.health = h, !.alive = FALSE], died |-> TRUE]
       ELSE [enemy |-> [e EXCEPT !.health = h], died |-> FALSE]

(***************************************************************************)
(* Tower (src/TDS.py, class Tower)                                         *)
(***************************************************************************)
\* the per-archetype block of Tower.__init__; fire rate in tenths per second,
\* projectile speed in tenths of a world unit of the source per frame
TowerBase(t) ==
  CASE t = "sniper" -> [base_damage |-> 25, base_range |-> 280, base_fire_rate10 |-> 12,
                        cost |-> 160, projectile_speed10 |-> 160, upgrade_cost |-> 80]
    [] t = "artillery" -> [base_damage |-> 50, base_range |-> 220, base_fire_rate10 |-> 8,
                           cost |-> 320, projectile_speed10 |-> 90, upgrade_cost |-> 160]
    [] t = "laser" -> [base_damage |-> 18, base_range |-> 240, base_fire_rate10 |-> 25,
                       cost |-> 240, projectile_speed10 |-> 120, upgrade_cost |-> 120]
    [] t = "rocket" -> [base_damage |-> 35, base_range |-> 200, base_fire_rate10 |-> 15,
                        cost |-> 280, projectile_speed10 |-> 70, upgrade_cost |-> 140]
    [] OTHER -> [base_damage |-> 12, base_range |-> 180, base_fire_rate10 |-> 30,
                 cost |-> 300, projectile_speed10 |-> 200, upgrade_cost |-> 150]

\* upgrade_multipliers of Tower.upgrade, in tenths
UpgradeMultiplier10(level) ==
  CASE level = 1 -> 10 [] level = 2 -> 15 [] level = 3 -> 22 [] OTHER -> 30

\* the archetype-specific ability parameters at a level, as Tower.__init__ sets
\* them (level 1) and Tower.upgrade recomputes them; 0 where the archetype has
\* no such attribute.  Chances and strengths in hundredths, multipliers and
\* percents in tenths.
Ability(t, level) ==
  [crit_chance100 |-> IF t = "sniper" THEN 15 + (level - 1) * 5 ELSE 0,
   crit_multiplier10 |-> IF t = "sniper" THEN 20 + (level - 1) * 5 ELSE 0,
   splash_radius |-> IF t = "artillery" THEN 60 + (level - 1) * 20 ELSE 0,
   splash_damage_percent10 |-> IF t = "artillery" THEN 5 + (level - 1) ELSE 0,
   chain_targets |-> IF t = "laser" THEN 3 + (level - 1) ELSE 0,
   missile_count |-> IF t = "rocket" THEN 2 + (level - 1) ELSE 0,
   homing_strength100 |-> IF t = "rocket" THEN 15 + (level - 1) * 5 ELSE 0,
   max_targets |-> IF t = "tesla" THEN 4 + (level - 1) * 2 ELSE 0,
   chain_damage_reduction10 |-> IF t = "laser" THEN 7 ELSE 0,
   damage_reduction10 |-> IF t = "tesla" THEN 8 ELSE 0]

\* fire_rate = base_fire_rate * 1.25 ** (level - 1), times 640 (exact up to
\* level 4)
FireRate640(t, level) ==
  TowerBase(t).base_fire_rate10 * Pow(5, level - 1) * Pow(4, MAX_LEVEL - level)

\* Tower(tower_type, x, y): a level-1 tower on a spot
NewTower(t, spot) ==
  [tower_type |-> t, spot |-> spot, level |-> 1, fire_timer |-> 0, target |-> 0,
   cost |-> TowerBase(t).cost,
   damage |-> TowerBase(t).base_damage, range |-> TowerBase(t).base_range,
   fire_rate640 |-> FireRate640(t, 1), upgrade_cost |-> TowerBase(t).upgrade_cost,
   ability |-> Ability(t, 1)]

\* TowerUpgrade with the level test off by one: level <= max_level
TowerUpgradeOffByOne(tw) ==
  IF tw.level <= MAX_LEVEL
  THEN LET l == tw.level + 1 IN
       [tw EXCEPT !.level = l,
                  !.damage = (TowerBase(tw.tower_type).base_damage * UpgradeMultiplier10(l)) \div 10,
                  !.range = (TowerBase(tw.tower_type).base_range * Pow(6, l - 1)) \div Pow(5, l - 1),
                  !.fire_rate640 = (tw.fire_rate640 * 5) \div 4,
                  !.upgrade_cost = (tw.upgrade_cost * 16) \div 10,
                  !.ability = Ability(tw.tower_type, l)]
  ELSE tw

\* Tower.upgrade: the tower after the call
TowerUpgrade(tw) ==
  IF tw.level < MAX_LEVEL
  THEN LET l == tw.level + 1 IN
       [tw EXCEPT !.level = l,
                  !.damage = (TowerBase(tw.tower_type).base_damage * UpgradeMultiplier10(l)) \div 10,
                  !.range = (TowerBase(tw.tower_type).base_range * Pow(6, l - 1)) \div Pow(5, l - 1),
                  !.fire_rate640 = FireRate640(tw.tower_type, l),
                  !.upgrade_cost = (tw.upgrade_cost * 16) \div 10,
                  !.ability = Ability(tw.tower_type, l)]
  ELSE tw

\* Tower.get_next_upgrade_stats()['cost']; -1 stands for None
NextUpgradeCost(tw) ==
  IF tw.level < MAX_LEVEL THEN (tw.upgrade_cost * 16) \div 10 ELSE -1

\* the frames fire_timer can usefully count: it is only ever compared with
\* 1 / fire_rate, which is largest for the slowest archetype at level 1
FireTimerCap == ((2 * FramesPerStride * 640) \div (3 * 8 * 64)) + 1

\* Tower.can_attack: fire_timer >= 1.0 / fire_rate, with fire_timer counted in
\* frames of 1.5 / FramesPerStride seconds
can_attack(tw) == tw.fire_timer * 3 * tw.fire_rate640 >= 2 * FramesPerStride * 640

\* distance <= self.range, the distance in world units of the model and the
\* range in those of the source
WithinRange(tw, dist) == dist * TILE_SIZE <= tw.range * TileGap
\* distance < closest_distance when closest_distance is still self.range
InsideRange(tw, dist) == dist * TILE_SIZE < tw.range * TileGap

(***************************************************************************)
(* Projectile (src/TDS.py, class Projectile)                               *)
(***************************************************************************)
\* projectile_speed in whole world units of the model per frame, at least 1
ProjectileSpeed(t) ==
  Max(1, (TowerBase(t).projectile_speed10 * TileGap) \div (TILE_SIZE * 10))

\* Projectile.update_movement: aim the velocity at the target when the target
\* still has health; en is the enemy store
update_movement(p, en) ==
  IF p.target # 0 /\ en[p.target].health > 0
  THEN [p EXCEPT !.change = Sign(en[p.target].pos - p.pos) * p.speed]
  ELSE p

\* Projectile(x, y, target, damage, speed, ..., homing, aoe_radius, is_critical)
NewProjectile(tw, damage, is_critical, en) ==
  update_movement(
    [pos |-> tw.spot, change |-> 0, target |-> tw.target, damage |-> damage,
     speed |-> ProjectileSpeed(tw.tower_type), homing |-> tw.tower_type = "rocket",
     homing_strength100 |-> IF tw.tower_type = "rocket"
                            THEN tw.ability.homing_strength100 ELSE 10,
     aoe_radius |-> IF tw.tower_type = "artillery" THEN tw.ability.splash_radius ELSE 0,
     is_critical |-> is_critical], en)

\* the model follows a projectile up to two world units beyond the field and
\* parks it there
FieldLo == PathPoints[1] - 2
FieldHi == 4 * TileGap + 2
Clamp(x) == Max(FieldLo, Min(FieldHi, x))

\* Projectile.update: a homing projectile blends its velocity towards the
\* target and renormalises it to its speed, then every projectile moves
ProjectileUpdate(p, en) ==
  LET steered ==
        IF p.homing /\ p.target # 0 /\ en[p.target].health > 0
        THEN LET target_dx == Sign(en[p.target].pos - p.pos) * p.speed
                 blended100 == p.change * 100 + (target_dx - p.change) * p.homing_strength100
             IN  Sign(blended100) * p.speed
        ELSE p.change
  IN [p EXCEPT !.change = steered, !.pos = Clamp(@ + steered)]

\* arcade.check_for_collision_with_list in one dimension: the sprites overlap
\* when they are at most one world unit apart
Collides(p, e) == Abs(p.pos - e.pos) <= 1

(***************************************************************************)
(* The map: load_map, find_path_bfs, create_single_path,                   *)
(* create_paths_for_map3                                                   *)
(***************************************************************************)
MapTypes == {"forest", "city", "hell", "cyber"}
\* T: a tower spot, #: path, S: a start cell, E: the end cell
CellSymbols == {"T", "#", "S", "E"}

\* level_map of load_map for the forest map
ForestMap ==
  <<
     << "T", "T", "T", "T", "T", "T", "T", "T", "T", "T", "T", "T", "T", "T", "T", "T", "T", "T", "T", "T" >>,
     << "T", "T", "T", "T", "T", "T", "T", "T", "T", "T", "T", "T", "T", "T", "T", "T", "T", "T", "T", "T" >>,
     << "T", "#", "#", "#", "#", "#", "#", "#", "#", "#", "#", "#", "#", "#", "#", "#", "#", "#", "#", "E" >>,
     << "T", "#", "T", "T", "T", "T", "T", "T", "T", "T", "T", "T", "T", "T", "T", "T", "T", "T", "T", "T" >>,
     << "T", "#", "T", "T", "T", "T", "T", "T", "T", "T", "T", "T", "T", "T", "T", "T", "T", "T", "T", "T" >>,
     << "T", "#", "T", "T", "T", "T", "T", "T", "T", "T", "T", "T", "T", "T", "T", "T", "T", "T", "T", "T" >>,
     << "T", "#", "#", "#", "#", "T", "T", "T", "T", "#", "#", "#", "#", "#", "T", "T", "T", "T", "T", "T" >>,
     << "T", "T", "T", "T", "#", "T", "T", "T", "T", "#", "T", "T", "T", "#", "T", "T", "T", "T", "T", "T" >>,
     << "T", "T", "T", "T", "#", "T", "T", "T", "T", "#", "T", "T", "T", "#", "T", "T", "T", "T", "T", "T" >>,
     << "T", "T", "T", "T", "#", "T", "T", "T", "T", "#", "T", "T", "T", "#", "T", "T", "T", "T", "T", "T" >>,
     << "T", "T", "T", "T", "#", "#", "#", "#", "#", "#", "T", "T", "T", "#", "#", "#", "#", "#", "#", "T" >>,
     << "T", "T", "T", "T", "T", "T", "T", "T", "T", "T", "T", "T", "T", "T", "T", "T", "T", "T", "#", "T" >>,
     << "T", "#", "#", "#", "#", "#", "#", "#", "#", "#", "#", "#", "#", "#", "#", "#", "#", "#", "#", "T" >>,
     << "T", "#", "T", "T", "T", "T", "T", "T", "T", "T", "T", "T", "T", "T", "T", "T", "T", "T", "T", "T" >>,
     << "T", "#", "#", "#", "#", "#", "#", "#", "#", "#", "#", "#", "#", "#", "#", "#", "#", "#", "#", "S" >>
  >>

\* level_map of load_map for the city map
CityMap ==
  <<
     << "T", "T", "T", "E", "T", "T", "T", "T", "T", "T", "T", "T", "T", "T", "T", "T", "T", "T", "T", "T" >>,
     << "T", "T", "T", "#", "#", "#", "#", "#", "#", "#", "#", "#", "#", "#", "#", "#", "#", "#", "T", "T" >>,
     << "T", "T", "T", "T", "T", "T", "T", "T", "T", "T", "T", "T", "T", "T", "T", "T", "T", "#", "T", "T" >>,
     << "T", "T", "T", "T", "T", "T", "T", "T", "T", "T", "T", "T", "T", "T", "T", "T", "T", "#", "T", "T" >>,
     << "T", "T", "T", "T", "T", "T", "T", "T", "T", "T", "T", "T", "T", "T", "T", "T", "T", "#", "T", "T" >>,
     << "T", "T", "T", "T", "T", "T", "T", "T", "T", "T", "T", "T", "T", "T", "T", "T", "T", "#", "T", "T" >>,
     << "T", "T", "T", "T", "T", "T", "T", "T", "T", "T", "T", "T", "#", "#", "#", "#", "#", "#", "T", "T" >>,
     << "T", "T", "T", "T", "T", "T", "#", "#", "#", "#", "#", "#", "#", "T", "T", "T", "T", "T", "T", "T" >>,
     << "T", "T", "T", "T", "T", "T", "#", "T", "T", "T", "T", "T", "T", "T", "T", "T", "T", "T", "T", "T" >>,
     << "T", "T", "#", "#", "#", "#", "#", "T", "T", "T", "T", "T", "T", "T", "T", "T", "T", "T", "T", "T" >>,
     << "T", "T", "#", "T", "T", "T", "T", "T", "T", "T", "T", "T", "T", "T", "T", "T", "T", "T", "T", "T" >>,
     << "T", "T", "#", "T", "T", "T", "#", "#", "#", "#", "#", "#", "#", "#", "#", "#", "#", "T", "T", "T" >>,
     << "T", "T", "#", "T", "T", "T", "#", "T", "T", "T", "T", "T", "T", "T", "T", "T", "#", "#", "T", "T" >>,
     << "T", "T", "#", "#", "#", "#", "#", "T", "T", "T", "T", "T", "T", "T", "T", "T", "T", "#", "T", "T" >>,
     << "T", "T", "T", "T", "T", "T", "T", "T", "T", "T", "T", "T", "T", "T", "T", "T", "T", "#", "#", "S" >>
  >>

\* level_map of load_map for the hell map
HellMap ==
  <<
     << "T", "T", "T", "E", "T", "T", "T", "T", "T", "T", "T", "T", "T", "T", "T", "T", "T", "T", "T", "T" >>,
     << "T", "T", "T", "#", "T", "T", "T", "T", "T", "T", "T", "T", "T", "T", "T", "T", "T", "T", "T", "T" >>,
     << "T", "T", "T", "#", "T", "T", "T", "T", "T", "T", "T", "T", "T", "T", "T", "T", "T", "T", "T", "T" >>,
     << "T", "T", "T", "#", "T", "T", "T", "T", "T", "T", "T", "T", "T", "T", "T", "T", "T", "T", "T", "T" >>,
     << "T", "T", "T", "#", "#", "#", "#", "#", "#", "#", "#", "#", "#", "T", "T", "T", "T", "T", "T", "T" >>,
     << "T", "T", "T", "T", "T", "T", "T", "T", "T", "T", "T", "T", "#", "T", "T", "T", "T", "T", "T", "T" >>,
     << "T", "T", "T", "T", "T", "T", "T", "T", "T", "T", "T", "T", "#", "T", "T", "T", "T", "T", "T", "T" >>,
     << "T", "T", "T", "T", "T", "T", "#", "#", "#", "#", "#", "#", "#", "T", "T", "T", "T", "T", "T", "T" >>,
     << "T", "T", "T", "T", "T", "T", "#", "T", "#", "T", "T", "T", "T", "T", "T", "T", "T", "T", "T", "T" >>,
     << "T", "T", "#", "#", "#", "#", "#", "T", "#", "T", "T", "T", "T", "T", "T", "T", "T", "T", "T", "T" >>,
     << "T", "T", "#", "T", "T", "T", "T", "T", "#", "T", "T", "T", "T", "T", "T", "T", "T", "T", "T", "T" >>,
     << "T", "T", "#", "T", "T", "T", "T", "T", "#", "#", "#", "#", "#", "#", "#", "#", "#", "T", "T", "T" >>,
     << "T", "T", "#", "T", "T", "T", "T", "T", "T", "T", "T", "T", "T", "T", "T", "T", "#", "#", "T", "T" >>,
     << "T", "T", "#", "T", "T", "T", "T", "T", "T", "T", "T", "T", "T", "T", "T", "T", "T", "#", "T", "T" >>,
     << "T", "T", "S", "T", "T", "T", "T", "T", "T", "T", "T", "T", "T", "T", "T", "T", "T", "#", "#", "S" >>
  >>

\* level_map of load_map for the cyber map
CyberMap ==
  <<
     << "T", "T", "T", "E", "T", "T", "T", "T", "T", "T", "T", "T", "T", "T", "T", "T", "T", "T", "T", "T" >>,
     << "T", "T", "T", "#", "T", "T", "T", "T", "T", "T", "T", "T", "T", "T", "T", "T", "T", "T", "T", "T" >>,
     << "T", "T", "T", "#", "T", "T", "T", "T", "T", "T", "T", "T", "T", "T", "T", "T", "T", "T", "T", "T" >>,
     << "T", "T", "T", "#", "#", "#", "#", "#", "#", "#", "T", "T", "T", "T", "T", "T", "T", "T", "T", "T" >>,
     << "T", "T", "T", "T", "T", "T", "T", "T", "T", "#", "T", "T", "T", "T", "T", "T", "T", "T", "T", "T" >>,
     << "T", "T", "T", "T", "T", "T", "#", "#", "#", "#", "#", "#", "#", "T", "T", "T", "T", "T", "T", "T" >>,
     << "T", "T", "T", "T", "T", "T", "#", "T", "T", "T", "T", "T", "#", "T", "T", "T", "T", "T", "T", "T" >>,
     << "T", "T", "#", "#", "#", "#", "#", "T", "T", "T", "T", "T", "#", "T", "T", "T", "T", "T", "T", "T" >>,
     << "T", "T", "#", "T", "T", "T", "T", "T", "T", "T", "T", "T", "#", "T", "T", "T", "T", "T", "T", "T" >>,
     << "T", "T", "#", "T", "T", "T", "T", "T", "T", "T", "T", "T", "#", "#", "#", "#", "#", "T", "T", "T" >>,
     << "T", "T", "#", "T", "T", "T", "T", "T", "T", "T", "T", "T", "T", "T", "T", "T", "#", "T", "T", "T" >>,
     << "T", "T", "#", "#", "#", "#", "#", "#", "#", "T", "T", "T", "T", "T", "T", "T", "#", "T", "T", "T" >>,
     << "T", "T", "T", "T", "T", "T", "T", "T", "#", "T", "T", "T", "T", "T", "T", "T", "#", "T", "T", "T" >>,
     << "T", "T", "T", "T", "T", "T", "T", "T", "#", "#", "#", "#", "#", "#", "#", "#", "#", "T", "T", "T" >>,
     << "T", "T", "T", "T", "T", "T", "T", "T", "T", "T", "T", "T", "T", "T", "T", "T", "T", "#", "#", "S" >>
  >>

\* the level_map load_map takes for a map type
LevelMapOf(mt) ==
  CASE mt = "forest" -> ForestMap
    [] mt = "city" -> CityMap
    [] mt = "hell" -> HellMap
    [] OTHER -> CyberMap

\* a cell is << x, y >> with x the column and y the row, both from 0
CellAt(lm, c) == lm[c[2] + 1][c[1] + 1]

\* for y in range(rows): for x in range(cols): the cells in the order load_map
\* visits them
ScanOrder(lm) ==
  [i \in 1..(Len(lm) * Len(lm[1])) |-> << (i - 1) % Len(lm[1]), (i - 1) \div Len(lm[1]) >>]

\* the keys of points_dict: the start, end and path cells
PointCells(lm) ==
  { c \in (0..(Len(lm[1]) - 1)) \X (0..(Len(lm) - 1)) : CellAt(lm, c) \in {"#", "S", "E"} }

\* self.start_positions after the scan
StartPositions(lm) == SelectSeq(ScanOrder(lm), LAMBDA c : CellAt(lm, c) = "S")

\* the cell of self.end_pos after the scan: the last E cell visited, << >> for
\* None
EndCell(lm) ==
  LET ends == SelectSeq(ScanOrder(lm), LAMBDA c : CellAt(lm, c) = "E")
  IN IF ends = << >> THEN << >> ELSE ends[Len(ends)]

\* points_dict[cell]: the centre of the cell in world units, for a window in
\* which map_offset_x and map_offset_y are 0
PointOf(c) ==
  << c[1] * TILE_SIZE + TILE_SIZE \div 2, c[2] * TILE_SIZE + TILE_SIZE \div 2 >>

\* the start and the end that load_map takes when the map has no S or no E
DefaultStart == << TILE_SIZE * 2, TILE_SIZE * 13 >>
DefaultEnd == << TILE_SIZE * 19, TILE_SIZE * 2 >>

\* Directions with a diagonal step among them
DirectionsWithDiagonal == << << 1, 0 >>, << -1, 0 >>, << 1, 1 >>, << 0, -1 >> >>

\* the (dx, dy) of find_path_bfs, in the order it tries them
Directions == << << 1, 0 >>, << -1, 0 >>, << 0, 1 >>, << 0, -1 >> >>

\* Enqueue that puts the new path in front of the queue
EnqueueInFront(queue, new_path) == << new_path >> \o queue

\* queue.append(new_path)
Enqueue(queue, new_path) == Append(queue, new_path)

\* the for loop of find_path_bfs over the directions from the k-th on: the
\* queue and the visited set after it
RECURSIVE ExpandFrom(_, _, _, _, _)
ExpandFrom(path, k, queue, visited, cells) ==
  IF k > Len(Directions) THEN [queue |-> queue, visited |-> visited]
  ELSE LET current == path[Len(path)]
           next_cell == << current[1] + Directions[k][1], current[2] + Directions[k][2] >>
       IN IF next_cell \in cells /\ next_cell \notin visited
          THEN ExpandFrom(path, k + 1, Enqueue(queue, Append(path, next_cell)),
                          visited \cup { next_cell }, cells)
          ELSE ExpandFrom(path, k + 1, queue, visited, cells)

\* one pass of the while loop of find_path_bfs: path = queue.popleft(), the
\* return of path when it ends at end, the for loop otherwise; found is the
\* path returned, << >> as long as none is
BfsPass(s, end, cells) ==
  IF s.found # << >> \/ s.queue = << >> THEN s
  ELSE LET path == Head(s.queue)
       IN IF path[Len(path)] = end THEN [s EXCEPT !.found = path]
          ELSE LET r == ExpandFrom(path, 1, Tail(s.queue), s.visited, cells)
               IN [queue |-> r.queue, visited |-> r.visited, found |-> << >>]

\* eight passes of the while loop
BfsPasses(s, end, cells) ==
  LET P(t) == BfsPass(t, end, cells)
  IN P(P(P(P(P(P(P(P(s))))))))

\* the while loop of find_path_bfs, eight passes for each level of the
\* recursion; << >> stands for None
RECURSIVE BfsLoop(_, _, _)
BfsLoop(s, end, cells) ==
  IF s.found # << >> \/ s.queue = << >> THEN s.found
  ELSE BfsLoop(BfsPasses(s, end, cells), end, cells)

\* GameView.find_path_bfs(start, end, points_dict), cells the keys of
\* points_dict
find_path_bfs(start, end, cells) ==
  IF start \notin cells \/ end \notin cells THEN << >>
  ELSE BfsLoop([queue |-> << << start >> >>, visited |-> { start }, found |-> << >>],
               end, cells)

\* [points_dict[cell] for cell in path]
PointsOf(path) == [i \in 1..Len(path) |-> PointOf(path[i])]

\* TwoPoints that forgets the end
OnlyStartPoint(start_pos, end_pos) == << start_pos >>

\* [start_pos, end_pos]
TwoPoints(start_pos, end_pos) == << start_pos, end_pos >>

\* the path from a start cell to the end cell, or the straight segment when
\* find_path_bfs finds none
PathOrSegment(start_cell, lm) ==
  LET path == find_path_bfs(start_cell, EndCell(lm), PointCells(lm))
  IN IF path # << >> THEN PointsOf(path)
     ELSE TwoPoints(PointOf(start_cell), PointOf(EndCell(lm)))

\* GameView.create_single_path; m holds map_type, level_map, path_points and
\* path_points2
create_single_path(m) ==
  IF StartPositions(m.level_map) = << >> \/ EndCell(m.level_map) = << >> THEN m
  ELSE [m EXCEPT !.path_points = PathOrSegment(StartPositions(m.level_map)[1], m.level_map)]

\* GameView.create_paths_for_map3
create_paths_for_map3(m) ==
  IF Len(StartPositions(m.level_map)) < 2 \/ EndCell(m.level_map) = << >> THEN m
  ELSE [m EXCEPT !.path_points = PathOrSegment(StartPositions(m.level_map)[1], m.level_map),
                 !.path_points2 = PathOrSegment(StartPositions(m.level_map)[2], m.level_map)]

\* GameView.load_map from the scan of level_map on
load_map(m) ==
  LET lm == m.level_map
      m1 == IF m.map_type = "hell" /\ Len(StartPositions(lm)) >= 2
            THEN create_paths_for_map3(m)
            ELSE create_single_path(m)
  IN IF m1.path_points = << >>
     THEN [m1 EXCEPT !.path_points =
             TwoPoints(IF StartPositions(lm) = << >> THEN DefaultStart
                       ELSE PointOf(StartPositions(lm)[1]),
                       IF EndCell(lm) = << >> THEN DefaultEnd
                       ELSE PointOf(EndCell(lm)))]
     ELSE m1

\* the map of the model: one row with a start cell, a path cell and the end
\* cell, whose path, in the world units of the model, is PathPoints
ModelMapType == "forest"
Corridor == << << "S", "#", "E" >> >>

(***************************************************************************)
(* Match state (src/TDS.py, class GameView)                                *)
(***************************************************************************)
VARIABLES
  difficulty,            \* self.difficulty
  waves,                 \* self.waves: the table generate_waves returned
  money, lives, score,   \* self.money, self.lives, self.score
  wave,                  \* self.wave: number of waves started
  wave_active,           \* self.wave_active
  enemies_spawned,       \* self.enemies_spawned
  total_enemies,         \* self.total_enemies
  wave_start_countdown,  \* self.wave_start_countdown, in frames
  game_over, victory,    \* self.game_over, self.victory
  selected_tower_type,   \* self.selected_tower_type
  selected_tower,        \* self.selected_tower: index into tower_list, 0 for None
  show_upgrade_menu,     \* self.show_upgrade_menu
  enemies,               \* every Enemy object created so far, by identity
  enemy_list,            \* self.enemy_list: identities, in list order
  tower_list,            \* self.tower_list
  projectile_list,       \* self.projectile_list
  timers,                \* callbacks registered with arcade.schedule
  created,               \* history: enemies created since the last start_wave
  killed_bounty,         \* history: sum of the bounties of the enemies killed
  escapes,               \* history: enemies removed at the end of the path
  crits,                 \* history: critical hits rolled
  last_outcome,          \* history: what the last handler was: "frozen_tick" for
                         \* the on_update of a finished match, "saved" for
                         \* save_game, "loaded" for load_save, "targeted" for
                         \* find_target, "attacked" for attack, else "none"
  view,                  \* the view the window shows: "game", "pause", "menu",
                         \* or "crashed" after an exception left a handler
  save_file,             \* data/save.json: << >> or one snapshot
  last_impact,           \* history: the hits of the projectiles in the last
                         \* on_update, one record for each projectile
  map_type,              \* self.map_type
  level_map,             \* the level_map load_map reads for the map type
  path_points,           \* self.path_points
  path_points2           \* self.path_points2

match_vars ==
  << difficulty, waves, money, lives, score, wave, wave_active, enemies_spawned,
     total_enemies, wave_start_countdown, game_over, victory,
     selected_tower_type, selected_tower, show_upgrade_menu, enemies, enemy_list,
     tower_list, projectile_list, timers, created, killed_bounty, escapes, crits,
     last_outcome, view, save_file, last_impact >>
map_vars == << map_type, level_map, path_points, path_points2 >>
vars == << match_vars, map_vars >>

\* the map as one record
MapState ==
  [map_type |-> map_type, level_map |-> level_map, path_points |-> path_points,
   path_points2 |-> path_points2]

\* the match as one record, for the handlers that are written as functions
Match ==
  [difficulty |-> difficulty, waves |-> waves, money |-> money, lives |-> lives, score |-> score,
   wave |-> wave, wave_active |-> wave_active, enemies_spawned |-> enemies_spawned,
   total_enemies |-> total_enemies, wave_start_countdown |-> wave_start_countdown,
   game_over |-> game_over, victory |-> victory,
   selected_tower_type |-> selected_tower_type, selected_tower |-> selected_tower,
   show_upgrade_menu |-> show_upgrade_menu, enemies |-> enemies,
   enemy_list |-> enemy_list, tower_list |-> tower_list,
   projectile_list |-> projectile_list, timers |-> timers, created |-> created,
   killed_bounty |-> killed_bounty, escapes |-> escapes, crits |-> crits,
   last_outcome |-> last_outcome, view |-> view, save_file |-> save_file,
   last_impact |-> last_impact]

\* an Enemy object that nothing refers to any more (it is in no list and it is
\* the target of no tower and of no projectile) is garbage: the store keeps a
\* blank record in its place, so that identities stay what they were
Referenced(g) ==
  Range(g.enemy_list)
    \cup { g.tower_list[k].target : k \in 1..Len(g.tower_list) }
    \cup { g.projectile_list[j].target : j \in 1..Len(g.projectile_list) }
Garbage ==
  [enemy_type |-> "slime", path_index |-> 0, pos |-> 0, level |-> 0, health |-> 0,
   alive |-> FALSE, bounty |-> 0, timer_wave |-> 0]
Collect(g) ==
  [g EXCEPT !.enemies = [id \in 1..Len(g.enemies) |->
                           IF id \in Referenced(g) THEN g.enemies[id] ELSE Garbage]]

Assign(g) ==
  /\ difficulty' = g.difficulty
  /\ waves' = g.waves
  /\ money' = g.money
  /\ lives' = g.lives
  /\ score' = g.score
  /\ wave' = g.wave
  /\ wave_active' = g.wave_active
  /\ enemies_spawned' = g.enemies_spawned
  /\ total_enemies' = g.total_enemies
  /\ wave_start_countdown' = g.wave_start_countdown
  /\ game_over' = g.game_over
  /\ victory' = g.victory
  /\ selected_tower_type' = g.selected_tower_type
  /\ selected_tower' = g.selected_tower
  /\ show_upgrade_menu' = g.show_upgrade_menu
  /\ enemies' = g.enemies
  /\ enemy_list' = g.enemy_list
  /\ tower_list' = g.tower_list
  /\ projectile_list' = g.projectile_list
  /\ timers' = g.timers
  /\ created' = g.created
  /\ killed_bounty' = g.killed_bounty
  /\ escapes' = g.escapes
  /\ crits' = g.crits
  /\ last_outcome' = g.last_outcome
  /\ view' = g.view
  /\ save_file' = g.save_file
  /\ last_impact' = g.last_impact

\* the match after a handler has run; the handlers of a match leave its map as
\* load_map has made it
Becomes(g) == Assign(Collect(g)) /\ UNCHANGED map_vars

StartingMoney(d) ==
  CASE d = "easy" -> STARTING_MONEY_EASY
    [] d = "normal" -> STARTING_MONEY_NORMAL
    [] OTHER -> STARTING_MONEY_HARD

StartingLives(d) ==
  CASE d = "easy" -> STARTING_LIVES_EASY
    [] d = "normal" -> STARTING_LIVES_NORMAL
    [] OTHER -> STARTING_LIVES_HARD

\* GameView.__init__: the fields of a new match of a difficulty
StartOfMatch ==
  /\ difficulty \in Difficulties
  /\ money = StartingMoney(difficulty)
  /\ lives = StartingLives(difficulty)
  /\ score = 0
  /\ wave = 0
  /\ wave_active = FALSE
  /\ enemies_spawned = 0
  /\ total_enemies = 0
  /\ wave_start_countdown = 0
  /\ game_over = FALSE
  /\ victory = FALSE
  /\ selected_tower_type = "sniper"
  /\ selected_tower = 0
  /\ show_upgrade_menu = FALSE
  /\ enemies = << >>
  /\ enemy_list = << >>
  /\ tower_list = << >>
  /\ projectile_list = << >>
  /\ timers = << >>
  /\ created = 0
  /\ killed_bounty = 0
  /\ escapes = 0
  /\ crits = 0
  /\ last_outcome = "none"
  /\ last_impact = << >>

\* setup(): load_map has run for the map of the model
CorridorLoaded ==
  /\ map_type = ModelMapType
  /\ level_map = Corridor
  /\ path_points = load_map([map_type |-> ModelMapType, level_map |-> Corridor,
                             path_points |-> << >>, path_points2 |-> << >>]).path_points
  /\ path_points2 = << >>

\* GameView.__init__ followed by setup(): a new match of a difficulty
Init ==
  /\ StartOfMatch
  /\ waves = ModelWaves
  /\ view = "game"
  /\ save_file = << >>
  /\ CorridorLoaded

(***************************************************************************)
(* start_wave and spawn_enemy                                              *)
(***************************************************************************)
\* the order in which wave_data.items() lists the archetypes
ArchetypeOrder == << "slime", "tank", "ninja" >>

\* sum(wave_data.values())
WaveTotal(w) == w.slime + w.tank + w.ninja

\* enemy_types of start_wave before the shuffle: each archetype count times
RECURSIVE Repeat(_, _)
Repeat(x, n) == IF n <= 0 THEN << >> ELSE << x >> \o Repeat(x, n - 1)
RECURSIVE FlattenFrom(_, _)
FlattenFrom(w, k) ==
  IF k > Len(ArchetypeOrder) THEN << >>
  ELSE Repeat(ArchetypeOrder[k], w[ArchetypeOrder[k]]) \o FlattenFrom(w, k + 1)
Flatten(w) == FlattenFrom(w, 1)

\* the results random.shuffle can leave: every permutation of the list
Shuffles(list) ==
  { [i \in 1..Len(list) |-> list[f[i]]] :
      f \in { h \in [1..Len(list) -> 1..Len(list)] :
                \A i, j \in 1..Len(list) : i # j => h[i] # h[j] } }

\* the shuffles of the wave that start_wave would start next (one dummy value
\* when no wave is left)
NextShuffles == IF wave < Len(waves) THEN Shuffles(Flatten(waves[wave + 1])) ELSE { << >> }

\* arcade.schedule(callback, i * 1.5) for every entry of the shuffled list:
\* a timer that first runs after its interval and then every interval again;
\* an interval of 0 runs once.  The callback is bound to the GameView that
\* registered it: stale says that this GameView is no longer the match of the
\* model, because a newer GameView has been constructed since.
RECURSIVE ScheduleFrom(_, _, _)
ScheduleFrom(list, i, w) ==
  IF i > Len(list) THEN << >>
  ELSE << [etype |-> list[i], interval |-> (i - 1) * FramesPerStride,
           remaining |-> (i - 1) * FramesPerStride, wave |-> w, stale |-> FALSE] >>
       \o ScheduleFrom(list, i + 1, w)

\* GameView.start_wave; shuffled is the outcome of random.shuffle
start_wave(g, shuffled) ==
  IF g.wave < Len(g.waves)
  THEN [g EXCEPT !.wave_active = TRUE,
                 !.wave_start_countdown = 0,
                 !.total_enemies = WaveTotal(g.waves[g.wave + 1]),
                 !.enemies_spawned = 0,
                 !.timers = @ \o ScheduleFrom(shuffled, 1, g.wave + 1),
                 !.wave = @ + 1,
                 !.created = 0]
  ELSE g

\* GameView.spawn_enemy (single-path maps: path is path_points); timer_wave is
\* history, the wave whose start_wave registered the calling timer
spawn_enemy(g, enemy_type, timer_wave) ==
  IF g.enemies_spawned < g.total_enemies /\ Len(PathPoints) > 0
  THEN [g EXCEPT !.enemies = Append(@, [NewEnemy(enemy_type, g.wave, g.difficulty)
                                          EXCEPT !.timer_wave = timer_wave]),
                 !.enemy_list = Append(@, Len(g.enemies) + 1),
                 !.enemies_spawned = @ + 1,
                 !.created = @ + 1]
  ELSE g

(***************************************************************************)
(* on_update, part 1: the enemy pass                                       *)
(***************************************************************************)
\* reached_end_debit with the test of self.lives made before the debit
reached_end_test_first(g, id) ==
  [g EXCEPT !.lives = @ - BASE_DAMAGE,
            !.enemy_list = Remove(@, id),
            !.game_over = @ \/ (g.lives <= 0),
            !.escapes = @ + 1]

\* the body of "if enemy.has_reached_end()": debit BASE_DAMAGE lives, remove the
\* enemy from enemy_list, and end the match when no life is left
reached_end_debit(g, id) ==
  [g EXCEPT !.lives = @ - BASE_DAMAGE,
            !.enemy_list = Remove(@, id),
            !.game_over = @ \/ (g.lives - BASE_DAMAGE <= 0),
            !.escapes = @ + 1]

\* for enemy in self.enemy_list: update, and on arrival at the end debit
\* BASE_DAMAGE and remove the enemy from the list that is being iterated; i is
\* the iterator's index, which moves on by one whatever was removed
RECURSIVE EnemyPass(_, _)
EnemyPass(g, i) ==
  IF i > Len(g.enemy_list) THEN g
  ELSE LET id == g.enemy_list[i]
           e == EnemyUpdate(g.enemies[id])
           g1 == [g EXCEPT !.enemies[id] = e]
       IN IF has_reached_end(e)
          THEN EnemyPass(reached_end_debit(g1, id), i + 1)
          ELSE EnemyPass(g1, i + 1)

(***************************************************************************)
(* on_update, part 2: the tower pass                                       *)
(***************************************************************************)
\* Tower.find_target for a projectile tower: the nearest living enemy strictly
\* inside the range, the first one found at equal distance
RECURSIVE FindTargetFrom(_, _, _, _)
FindTargetFrom(tw, g, i, closest) ==
  IF i > Len(g.enemy_list) THEN closest
  ELSE LET id == g.enemy_list[i]
           e == g.enemies[id]
           distance == Abs(tw.spot - e.pos)
       IN IF ~e.alive \/ e.health <= 0 THEN FindTargetFrom(tw, g, i + 1, closest)
          ELSE IF (closest = 0 /\ InsideRange(tw, distance))
                  \/ (closest # 0 /\ distance < Abs(tw.spot - g.enemies[closest].pos))
               THEN FindTargetFrom(tw, g, i + 1, id)
               ELSE FindTargetFrom(tw, g, i + 1, closest)
find_target(tw, g) == [tw EXCEPT !.target = FindTargetFrom(tw, g, 1, 0)]

\* targets.sort(key=distance): a stable insertion of id into a sorted list
RECURSIVE InsertByDistance(_, _, _, _)
InsertByDistance(sorted, id, tw, g) ==
  IF sorted = << >> THEN << id >>
  ELSE IF Abs(tw.spot - g.enemies[id].pos) < Abs(tw.spot - g.enemies[Head(sorted)].pos)
       THEN << id >> \o sorted
       ELSE << Head(sorted) >> \o InsertByDistance(Tail(sorted), id, tw, g)
RECURSIVE SortedTargetsFrom(_, _, _)
SortedTargetsFrom(tw, g, i) ==
  IF i = 0 THEN << >>
  ELSE LET id == g.enemy_list[i]
           e == g.enemies[id]
           before == SortedTargetsFrom(tw, g, i - 1)
       IN IF e.alive /\ e.health > 0 /\ WithinRange(tw, Abs(tw.spot - e.pos))
          THEN InsertByDistance(before, id, tw, g)
          ELSE before

\* Tower.find_multiple_targets: the living enemies within range, nearest
\* first, at most max_targets of them
find_multiple_targets(tw, g) ==
  LET all == SortedTargetsFrom(tw, g, Len(g.enemy_list))
  IN SubSeq(all, 1, Min(Len(all), tw.ability.max_targets))

\* Tower.attack_tesla: instant damage with geometric falloff; the enemy that
\* dies is left in enemy_list and nothing is credited
RECURSIVE TeslaHits(_, _, _, _, _)
TeslaHits(g, tw, targets, k, evade) ==
  IF k > Len(targets) THEN g
  ELSE LET id == targets[k]
           damage == (tw.damage * 1000 * Pow(tw.ability.damage_reduction10, k - 1))
                       \div Pow(10, k - 1)
           r == take_damage(g.enemies[id], damage, id \in evade)
       IN TeslaHits([g EXCEPT !.enemies[id] = r.enemy,
                             !.killed_bounty = @ + (IF r.died THEN r.enemy.bounty ELSE 0)],
                    tw, targets, k + 1, evade)
attack_tesla(g, tw, evade) == TeslaHits(g, tw, find_multiple_targets(tw, g), 1, evade)

\* Tower.create_projectile; crit is the outcome of random.random() <
\* self.crit_chance, which only the sniper rolls
create_projectile(g, tw, crit) ==
  LET is_critical == tw.tower_type = "sniper" /\ crit
      damage == IF is_critical
                THEN tw.damage * tw.ability.crit_multiplier10 * 100
                ELSE tw.damage * 1000
  IN [g EXCEPT !.projectile_list = Append(@, NewProjectile(tw, damage, is_critical, g.enemies)),
               !.crits = @ + (IF is_critical THEN 1 ELSE 0)]

\* Tower.attack: a rocket tower of level 2 or more fires missile_count
\* projectiles, every other tower one
RECURSIVE Volley(_, _, _, _)
Volley(g, tw, n, crit) ==
  IF n <= 0 THEN g ELSE Volley(create_projectile(g, tw, crit), tw, n - 1, crit)
attack(g, tw, crit) ==
  IF tw.tower_type = "rocket" /\ tw.level >= 2
  THEN Volley(g, tw, tw.ability.missile_count, crit)
  ELSE create_projectile(g, tw, crit)

\* Tower.update(delta_time, enemies, projectiles, ...) of tower k
TowerUpdate(g, k, evade, crit) ==
  LET tw0 == g.tower_list[k]
      tw1 == [tw0 EXCEPT !.fire_timer = Min(@ + 1, FireTimerCap)]
  IN IF tw1.tower_type = "tesla"
     THEN IF can_attack(tw1)
          THEN [attack_tesla(g, tw1, evade) EXCEPT !.tower_list[k] = [tw1 EXCEPT !.fire_timer = 0]]
          ELSE [g EXCEPT !.tower_list[k] = tw1]
     ELSE LET tw2 == IF tw1.target = 0 \/ ~g.enemies[tw1.target].alive
                        \/ g.enemies[tw1.target].health <= 0
                     THEN find_target(tw1, g)
                     ELSE IF ~WithinRange(tw1, Abs(tw1.spot - g.enemies[tw1.target].pos))
                          THEN find_target(tw1, g)
                          ELSE tw1
          IN IF tw2.target # 0 /\ can_attack(tw2) /\ g.enemies[tw2.target].alive
                /\ WithinRange(tw2, Abs(tw2.spot - g.enemies[tw2.target].pos))
             THEN [attack(g, tw2, k \in crit) EXCEPT !.tower_list[k] = [tw2 EXCEPT !.fire_timer = 0]]
             ELSE [g EXCEPT !.tower_list[k] = tw2]

\* for tower in self.tower_list: update it, or only let its timer run on the
\* frames on which towers are skipped
RECURSIVE TowerPass(_, _, _, _, _)
TowerPass(g, k, update_towers, evade, crit) ==
  IF k > Len(g.tower_list) THEN g
  ELSE IF update_towers
       THEN TowerPass(TowerUpdate(g, k, evade, crit), k + 1, update_towers, evade, crit)
       ELSE TowerPass([g EXCEPT !.tower_list[k].fire_timer = Min(@ + 1, FireTimerCap)],
                      k + 1, update_towers, evade, crit)

(***************************************************************************)
(* on_update, part 3: the projectile pass                                  *)
(***************************************************************************)
\* the nearest living enemy of enemy_list to a projectile, 0 when there is none
RECURSIVE ClosestFrom(_, _, _, _)
ClosestFrom(p, g, i, closest) ==
  IF i > Len(g.enemy_list) THEN closest
  ELSE LET id == g.enemy_list[i]
       IN IF g.enemies[id].alive
             /\ (closest = 0 \/ Abs(p.pos - g.enemies[id].pos) < Abs(p.pos - g.enemies[closest].pos))
          THEN ClosestFrom(p, g, i + 1, id)
          ELSE ClosestFrom(p, g, i + 1, closest)

\* the retargeting of a projectile whose target is no longer alive
Retarget(p, g) ==
  IF p.target # 0 /\ ~g.enemies[p.target].alive
  THEN LET closest == ClosestFrom(p, g, 1, 0)
       IN IF closest # 0 THEN update_movement([p EXCEPT !.target = closest], g.enemies) ELSE p
  ELSE p

\* hit_list: the sprites of enemy_list the projectile overlaps, in list order
HitList(p, g) == SelectSeq(g.enemy_list, LAMBDA id : Collides(p, g.enemies[id]))

\* for enemy in hit_list: damage every enemy of the list that is alive; a kill
\* credits the bounty and ten times the bounty and removes the enemy
RECURSIVE ApplyHits(_, _, _, _, _)
ApplyHits(g, p, hits, k, evade) ==
  IF k > Len(hits) THEN g
  ELSE LET id == hits[k] IN
       IF g.enemies[id].alive
       THEN LET r == take_damage(g.enemies[id], p.damage, id \in evade)
                g1 == [g EXCEPT !.enemies[id] = r.enemy]
            IN IF r.died
               THEN ApplyHits([g1 EXCEPT !.money = @ + r.enemy.bounty,
                                         !.score = @ + r.enemy.bounty * 10,
                                         !.enemy_list = Remove(@, id),
                                         !.killed_bounty = @ + r.enemy.bounty],
                              p, hits, k + 1, evade)
               ELSE ApplyHits(g1, p, hits, k + 1, evade)
       ELSE ApplyHits(g, p, hits, k + 1, evade)

\* history: a projectile has a hit_list that is not empty: where, the enemies
\* of the hit_list, those of them that are alive (take_damage is called on
\* them), with what
Impact(g, p, hits) ==
  [g EXCEPT !.last_impact = Append(@, [pos |-> p.pos, hits |-> Range(hits),
                                       struck |-> { id \in Range(hits) : g.enemies[id].alive },
                                       damage |-> p.damage,
                                       aoe_radius |-> p.aoe_radius])]

\* for projectile in self.projectile_list[:]: move, retarget, collide; flying
\* is the copy that is iterated, g.projectile_list collects what stays live
RECURSIVE ProjectilePass(_, _, _, _)
ProjectilePass(g, flying, j, evade) ==
  IF j > Len(flying) THEN g
  ELSE LET p == Retarget(ProjectileUpdate(flying[j], g.enemies), g)
           hits == HitList(p, g)
       IN IF hits # << >>
          THEN ProjectilePass(ApplyHits(Impact(g, p, hits), p, hits, 1, evade),
                              flying, j + 1, evade)
          ELSE ProjectilePass([g EXCEPT !.projectile_list = Append(@, p)], flying, j + 1, evade)

\* if len(self.projectile_list) > 100: keep the newest 80
CapProjectiles(list) ==
  IF Len(list) > PROJECTILE_CAP
  THEN SubSeq(list, Len(list) - PROJECTILE_KEEP + 1, Len(list))
  ELSE list

(***************************************************************************)
(* on_update, part 4: the wave lifecycle                                   *)
(***************************************************************************)
\* AutoStart that arms the countdown and never lets it run
AutoStartFrozenCountdown(g, shuffled) ==
  IF ~g.wave_active /\ g.enemies_spawned >= g.total_enemies
     /\ Len(g.enemy_list) = 0 /\ g.wave < Len(g.waves)
  THEN [g EXCEPT !.wave_start_countdown = AutoDelayFrames]
  ELSE [g EXCEPT !.wave_start_countdown = 0]

\* the auto-start countdown
AutoStart(g, shuffled) ==
  IF ~g.wave_active /\ g.enemies_spawned >= g.total_enemies
     /\ Len(g.enemy_list) = 0 /\ g.wave < Len(g.waves)
  THEN IF g.wave_start_countdown <= 0
       THEN [g EXCEPT !.wave_start_countdown = AutoDelayFrames]
       ELSE IF g.wave_start_countdown - 1 <= 0
            THEN start_wave([g EXCEPT !.wave_start_countdown = @ - 1], shuffled)
            ELSE [g EXCEPT !.wave_start_countdown = @ - 1]
  ELSE [g EXCEPT !.wave_start_countdown = 0]

\* ClearWave without the test of the spawn counter
ClearWaveOnEmptyField(g) ==
  IF g.enemy_list = << >> /\ g.wave_active
  THEN [g EXCEPT !.wave_active = FALSE,
                 !.enemies_spawned = 0,
                 !.total_enemies = 0,
                 !.victory = @ \/ (g.wave >= Len(g.waves))]
  ELSE g

\* the wave is cleared, and the match won after the last wave
ClearWave(g) ==
  IF g.enemy_list = << >> /\ g.enemies_spawned >= g.total_enemies /\ g.wave_active
  THEN [g EXCEPT !.wave_active = FALSE,
                 !.enemies_spawned = 0,
                 !.total_enemies = 0,
                 !.victory = @ \/ (g.wave >= Len(g.waves))]
  ELSE g

\* on_update without the early return of a finished match
on_update_unguarded(g, evade, crit, shuffled, even) ==
  LET g1 == EnemyPass(g, 1)
      update_towers == even \/ Len(g1.enemy_list) < TOWER_THROTTLE
      g3 == TowerPass(g1, 1, update_towers, evade, crit)
      g4 == ProjectilePass([g3 EXCEPT !.projectile_list = << >>],
                           g3.projectile_list, 1, evade)
      g5 == [g4 EXCEPT !.projectile_list = CapProjectiles(@)]
  IN ClearWave(AutoStart(g5, shuffled))

\* GameView.on_update(delta_time) for one frame; even is whether
\* self.update_counter is even after its increment
on_update(g, evade, crit, shuffled, even) ==
  IF g.game_over \/ g.victory THEN g
  ELSE LET g1 == EnemyPass(g, 1)
           update_towers == even \/ Len(g1.enemy_list) < TOWER_THROTTLE
           g3 == TowerPass(g1, 1, update_towers, evade, crit)
           g4 == ProjectilePass([g3 EXCEPT !.projectile_list = << >>],
                                g3.projectile_list, 1, evade)
           g5 == [g4 EXCEPT !.projectile_list = CapProjectiles(@)]
       IN ClearWave(AutoStart(g5, shuffled))

(***************************************************************************)
(* The event loop                                                          *)
(***************************************************************************)
\* the clock moves on by one frame
ClockAdvance(ts) ==
  [i \in 1..Len(ts) |-> [ts[i] EXCEPT !.remaining = IF @ > 0 THEN @ - 1 ELSE 0]]

\* a callback of arcade.schedule is due
Due(i) == timers[i].remaining = 0

\* one frame: the on_update of the GameView the window shows runs, then a
\* frame of time passes.  Every callback that is due runs before the next frame.
Frame ==
  /\ view = "game"
  /\ \A i \in 1..Len(timers) : ~Due(i)
  /\ Len(projectile_list) <= MaxProjectiles
  /\ \E evade \in SUBSET { id \in Range(enemy_list) :
                             EnemyStats(enemies[id].enemy_type).evasion100 > 0 } :
     \E crit \in SUBSET { k \in 1..Len(tower_list) :
                            tower_list[k].tower_type = "sniper" /\ crits < MaxCrits } :
     \E shuffled \in NextShuffles :
     \E even \in BOOLEAN :
       LET g == on_update([Match EXCEPT !.last_impact = << >>], evade, crit, shuffled, even)
       IN Becomes([g EXCEPT !.timers = ClockAdvance(@),
                            !.last_outcome = IF game_over \/ victory
                                             THEN "frozen_tick" ELSE "none"])

\* the clock runs a due callback, lambda dt: self.spawn_enemy(etype), whatever
\* view the window shows; the callback of a stale timer runs spawn_enemy of a
\* GameView that is not the match of the model.  A callback with a positive
\* interval is due again after its interval, one with interval 0 is dropped.  A callback registered with interval 0 is due
\* from the moment of its registration, so it runs before the others.
RemoveAt(seq, i) == SubSeq(seq, 1, i - 1) \o SubSeq(seq, i + 1, Len(seq))
FireTimer(i) ==
  /\ Due(i)
  /\ timers[i].interval > 0 => \A j \in 1..Len(timers) : timers[j].interval > 0
  /\ LET t == timers[i]
         g == IF t.stale THEN Match ELSE spawn_enemy(Match, t.etype, t.wave)
     IN Becomes([g EXCEPT !.timers = IF t.interval > 0
                                     THEN [@ EXCEPT ![i].remaining = t.interval]
                                     ELSE RemoveAt(@, i),
                          !.last_outcome = "none"])

(***************************************************************************)
(* Player commands: on_mouse_press and on_key_press                        *)
(***************************************************************************)
\* the tower spots that lie under the upgrade menu rectangle
SpotsUnderMenu == { 4 * TileGap }

\* PlacementCost with a sniper price that differs from Tower.cost
PlacementCostCheapSniper(t) ==
  CASE t = "sniper" -> 150
    [] t = "artillery" -> 320
    [] t = "laser" -> 240
    [] t = "rocket" -> 280
    [] OTHER -> 300

\* the cost on_mouse_press charges for the selected archetype
PlacementCost(t) ==
  CASE t = "sniper" -> 160
    [] t = "artillery" -> 320
    [] t = "laser" -> 240
    [] t = "rocket" -> 280
    [] OTHER -> 300

\* the first tower of tower_list that stands on the spot, 0 when it is free
RECURSIVE OccupantFrom(_, _, _)
OccupantFrom(list, spot, k) ==
  IF k > Len(list) THEN 0
  ELSE IF Abs(list[k].spot - spot) < 1 THEN k
  ELSE OccupantFrom(list, spot, k + 1)
Occupant(g, spot) == OccupantFrom(g.tower_list, spot, 1)

\* on_mouse_press on the wave button
press_wave_button(g, shuffled) ==
  IF g.game_over \/ g.victory THEN g
  ELSE IF ~g.wave_active /\ g.wave < Len(g.waves) THEN start_wave(g, shuffled)
  ELSE g

\* press_upgrade_button without the test of self.money
press_upgrade_button_unpaid(g) ==
  IF g.game_over \/ g.victory THEN g
  ELSE IF g.selected_tower # 0 /\ g.tower_list[g.selected_tower].level < MAX_LEVEL
          /\ NextUpgradeCost(g.tower_list[g.selected_tower]) >= 0
       THEN [g EXCEPT !.money = @ - NextUpgradeCost(g.tower_list[g.selected_tower]),
                      !.tower_list[g.selected_tower] = TowerUpgrade(@),
                      !.show_upgrade_menu = FALSE]
       ELSE g

\* on_mouse_press on the upgrade button of the open upgrade menu
press_upgrade_button(g) ==
  IF g.game_over \/ g.victory THEN g
  ELSE IF g.selected_tower # 0 /\ g.tower_list[g.selected_tower].level < MAX_LEVEL
          /\ NextUpgradeCost(g.tower_list[g.selected_tower]) >= 0
          /\ g.money >= NextUpgradeCost(g.tower_list[g.selected_tower])
       THEN [g EXCEPT !.money = @ - NextUpgradeCost(g.tower_list[g.selected_tower]),
                      !.tower_list[g.selected_tower] = TowerUpgrade(@),
                      !.show_upgrade_menu = FALSE]
       ELSE g

\* on_mouse_press on the button of a tower archetype
press_tower_button(g, t) ==
  IF g.game_over \/ g.victory THEN g
  ELSE [g EXCEPT !.selected_tower_type = t, !.show_upgrade_menu = FALSE]

\* press_field that charges for the click on an occupied spot
press_field_charges_occupied(g, spot) ==
  IF g.game_over \/ g.victory THEN g
  ELSE IF g.show_upgrade_menu /\ spot \notin SpotsUnderMenu
       THEN [g EXCEPT !.show_upgrade_menu = FALSE]
  ELSE IF spot \notin TowerSpots THEN g
  ELSE IF Occupant(g, spot) # 0
       THEN [g EXCEPT !.selected_tower = Occupant(g, spot), !.show_upgrade_menu = TRUE,
                      !.money = @ - PlacementCost(g.selected_tower_type)]
  ELSE IF g.money >= PlacementCost(g.selected_tower_type)
       THEN [g EXCEPT !.tower_list = Append(@, NewTower(g.selected_tower_type, spot)),
                      !.money = @ - PlacementCost(g.selected_tower_type),
                      !.selected_tower = Len(g.tower_list) + 1,
                      !.show_upgrade_menu = TRUE]
       ELSE g

\* on_mouse_press on the field; spot is the tower spot under the cursor, or
\* -1 when the cursor is on no tower spot
press_field(g, spot) ==
  IF g.game_over \/ g.victory THEN g
  ELSE IF g.show_upgrade_menu /\ spot \notin SpotsUnderMenu
       THEN [g EXCEPT !.show_upgrade_menu = FALSE]
  ELSE IF spot \notin TowerSpots THEN g
  ELSE IF Occupant(g, spot) # 0
       THEN [g EXCEPT !.selected_tower = Occupant(g, spot), !.show_upgrade_menu = TRUE]
  ELSE IF g.money >= PlacementCost(g.selected_tower_type)
       THEN [g EXCEPT !.tower_list = Append(@, NewTower(g.selected_tower_type, spot)),
                      !.money = @ - PlacementCost(g.selected_tower_type),
                      !.selected_tower = Len(g.tower_list) + 1,
                      !.show_upgrade_menu = TRUE]
       ELSE g

\* press_space without the test of self.wave_active
press_space_while_active(g, shuffled) == start_wave(g, shuffled)

\* on_key_press(SPACE)
press_space(g, shuffled) ==
  IF ~g.wave_active /\ g.wave < Len(g.waves) THEN start_wave(g, shuffled) ELSE g

\* The schedule of the player's clicks that the model follows: the player
\* builds and upgrades while no enemy is on the field, and picks among the
\* archetype buttons of ButtonTypes.  The wave button and SPACE are pressed at
\* any moment.
PlayerBuilds == enemy_list = << >>
ButtonTypes == {"sniper", "tesla"}

\* the match after a handler of a player command has run
Commanded(g) == Becomes([g EXCEPT !.last_outcome = "none"])

\* a placement the match must refuse: the click is on no tower spot, on an
\* occupied one, or the player cannot pay the selected archetype
PlacementDenied(spot) ==
  \/ spot \notin TowerSpots
  \/ Occupant(Match, spot) # 0
  \/ money < PlacementCost(selected_tower_type)

\* an upgrade the match must refuse: the player cannot pay the next level of the
\* selected tower
UpgradeDenied ==
  /\ selected_tower # 0
  /\ tower_list[selected_tower].level < MAX_LEVEL
  /\ money < NextUpgradeCost(tower_list[selected_tower])

ClickField(spot) == Commanded(press_field(Match, spot))
ClickUpgrade == Commanded(press_upgrade_button(Match))

\* the window hands mouse and key events to the view it shows
MouseWaveButton ==
  view = "game" /\ \E shuffled \in NextShuffles : Commanded(press_wave_button(Match, shuffled))
MouseUpgradeButton == view = "game" /\ PlayerBuilds /\ show_upgrade_menu /\ ClickUpgrade
MouseTowerButton ==
  view = "game" /\ PlayerBuilds /\ \E t \in ButtonTypes : Commanded(press_tower_button(Match, t))
MouseField == view = "game" /\ PlayerBuilds /\ \E spot \in TowerSpots \cup {-1} : ClickField(spot)
KeySpace ==
  view = "game" /\ \E shuffled \in NextShuffles : Commanded(press_space(Match, shuffled))

\* the clock runs one of the callbacks that are due
RunTimer == \E i \in 1..Len(timers) : FireTimer(i)

Next ==
  \/ Frame
  \/ RunTimer
  \/ MouseWaveButton
  \/ MouseUpgradeButton
  \/ MouseTowerButton
  \/ MouseField
  \/ KeySpace

Spec == Init /\ [][Next]_vars

\* The window's clock calls on_update every frame and runs every scheduled
\* callback that is due, for as long as the program runs: once callbacks are
\* registered, frames and due callbacks are not postponed forever.
\* The steps of Frame and of RunTimer as the clock sees them: a frame moves
\* every callback one frame closer, a callback that has run is due again
\* after its interval or is dropped.
Tick ==
  /\ view = "game"
  /\ \A i \in 1..Len(timers) : ~Due(i)
  /\ Len(projectile_list) <= MaxProjectiles
  /\ timers # << >>
  /\ timers' = ClockAdvance(timers)
TimerRuns ==
  \E i \in 1..Len(timers) :
    /\ Due(i)
    /\ timers[i].interval > 0 => \A j \in 1..Len(timers) : timers[j].interval > 0
    /\ timers' = IF timers[i].interval > 0
                 THEN [timers EXCEPT ![i].remaining = timers[i].interval]
                 ELSE RemoveAt(timers, i)

FairSpec == Spec /\ WF_timers(Tick) /\ WF_timers(TimerRuns)

\* The step of Frame as the countdown of the auto-start sees it, between two
\* waves of a running match: on_update arms the countdown or lets it run by
\* one frame.  The clock calls on_update every frame whether callbacks are
\* registered or not.
Countdown ==
  /\ view = "game"
  /\ \A i \in 1..Len(timers) : ~Due(i)
  /\ Len(projectile_list) <= MaxProjectiles
  /\ ~game_over /\ ~victory
  /\ ~wave_active /\ enemies_spawned >= total_enemies
  /\ enemy_list = << >> /\ wave < Len(waves)
  /\ wave_start_countdown' = IF wave_start_countdown <= 0 THEN AutoDelayFrames
                             ELSE wave_start_countdown - 1

AutoStartSpec ==
  Spec /\ WF_timers(Tick) /\ WF_timers(TimerRuns) /\ WF_wave_start_countdown(Countdown)

(***************************************************************************)
(* Saving and loading: save_game, load_save, MenuView.select_item          *)
(***************************************************************************)
\* Tower.upgrade: the value the call returns
UpgradeReturn(tw) ==
  IF tw.level < MAX_LEVEL THEN (tw.upgrade_cost * 16) \div 10 ELSE 0

\* for _ in range(n): tower.upgrade()
RECURSIVE Upgrades(_, _)
Upgrades(tw, n) == IF n <= 0 THEN tw ELSE Upgrades(TowerUpgrade(tw), n - 1)

\* GameView(window, difficulty) constructed while the program is in state g:
\* a new match object; the callbacks the clock still holds belong to older ones
NewGameView(g, d) ==
  [g EXCEPT !.difficulty = d, !.waves = generate_waves(d),
            !.money = StartingMoney(d), !.lives = StartingLives(d),
            !.score = 0, !.wave = 0, !.wave_active = FALSE, !.enemies_spawned = 0,
            !.total_enemies = 0, !.wave_start_countdown = 0, !.game_over = FALSE,
            !.victory = FALSE, !.selected_tower_type = "sniper", !.selected_tower = 0,
            !.show_upgrade_menu = FALSE, !.enemies = << >>, !.enemy_list = << >>,
            !.tower_list = << >>, !.projectile_list = << >>,
            !.timers = [i \in 1..Len(g.timers) |-> [g.timers[i] EXCEPT !.stale = TRUE]],
            !.created = 0, !.killed_bounty = 0, !.escapes = 0, !.crits = 0,
            !.last_impact = << >>]

\* the data dictionary of save_game as json.dump writes it and json.load reads
\* it back: the enum members by their values, every tower as a list of four
Snapshot(g) ==
  [money |-> g.money, lives |-> g.lives, score |-> g.score, wave |-> g.wave,
   difficulty |-> g.difficulty, map_type |-> ModelMapType,
   towers |-> [k \in 1..Len(g.tower_list) |->
                 [tower_type |-> g.tower_list[k].tower_type,
                  spot |-> g.tower_list[k].spot,
                  level |-> g.tower_list[k].level]]]

\* GameView.save_game
save_game(g) == [g EXCEPT !.save_file = << Snapshot(g) >>, !.last_outcome = "saved"]

\* the body of the try block of load_save for one entry of data["towers"]
LoadTower(entry) ==
  Upgrades([NewTower(entry.tower_type, entry.spot) EXCEPT !.level = entry.level],
           entry.level - 1)

\* for t_data in data.get("towers", []): TowerType(t_type_str) raises ValueError
\* for an unknown value, and the entry is skipped
RECURSIVE LoadTowers(_, _)
LoadTowers(entries, k) ==
  IF k > Len(entries) THEN << >>
  ELSE IF entries[k].tower_type \in TowerTypes
       THEN << LoadTower(entries[k]) >> \o LoadTowers(entries, k + 1)
       ELSE LoadTowers(entries, k + 1)

\* Difficulty(diff_value) or MapType(map_value) raises ValueError, which
\* load_save does not catch
load_save_raises(data) ==
  data.difficulty \notin Difficulties \/ data.map_type \notin MapTypes

\* GameView.load_save(data) when it raises nothing
load_save(g, data) ==
  [g EXCEPT !.money = data.money, !.lives = data.lives, !.score = data.score,
            !.wave = data.wave, !.difficulty = data.difficulty,
            !.tower_list = @ \o LoadTowers(data.towers, 1)]

\* MenuView.select_item with self.selected == 1: without a save file the
\* difficulty menu follows; an exception that leaves load_save leaves the
\* handler and ends the program
select_item_load(g) ==
  IF g.save_file = << >> THEN g
  ELSE IF load_save_raises(g.save_file[1]) THEN [g EXCEPT !.view = "crashed"]
  ELSE [load_save(NewGameView(g, "normal"), g.save_file[1])
          EXCEPT !.view = "game", !.last_outcome = "loaded"]

\* GameView.on_key_press(ESCAPE): the menu after a finished match, else the
\* pause view
press_escape(g) ==
  [g EXCEPT !.view = IF g.game_over \/ g.victory THEN "menu" ELSE "pause",
            !.last_outcome = "none"]

\* PauseView.select_option: 0 resumes, 1 saves, 2 leaves for the menu
select_option(g, selected) ==
  CASE selected = 0 -> [g EXCEPT !.view = "game", !.last_outcome = "none"]
    [] selected = 1 -> save_game(g)
    [] OTHER -> [g EXCEPT !.view = "menu", !.last_outcome = "none"]

KeyS == view = "game" /\ Becomes(save_game(Match))
KeyEscape == view = "game" /\ Becomes(press_escape(Match))
PauseSelect == view = "pause" /\ \E selected \in 0..2 : Becomes(select_option(Match, selected))
MenuLoad == view = "menu" /\ Becomes(select_item_load(Match))

\* the towers a player can own: placed on a tower spot and upgraded up to
\* max_level
OwnedTowers ==
  { Upgrades(NewTower(t, spot), n) :
      t \in TowerTypes, spot \in TowerSpots, n \in 0..(MAX_LEVEL - 1) }

\* save files that were edited outside the program: an unknown archetype in
\* front of a valid tower, an unknown difficulty, an unknown map type
EditedFiles ==
  LET good == [tower_type |-> "sniper", spot |-> TileGap, level |-> 1]
      base == [money |-> STARTING_MONEY_NORMAL, lives |-> STARTING_LIVES_NORMAL,
               score |-> 0, wave |-> 0, difficulty |-> "normal",
               map_type |-> ModelMapType, towers |-> << good >>]
  IN { [base EXCEPT !.towers = << [good EXCEPT !.tower_type = "archer"], good >>],
       [base EXCEPT !.towers = << good, [good EXCEPT !.tower_type = "archer",
                                                      !.spot = 4 * TileGap] >>],
       [base EXCEPT !.difficulty = "nightmare"],
       [base EXCEPT !.map_type = "desert"] }

\* a match between two waves in which the player owns at most one tower, and
\* the save file the program finds: none, or an edited one
LoadInit ==
  /\ difficulty \in Difficulties
  /\ waves = generate_waves(difficulty)
  /\ money = StartingMoney(difficulty)
  /\ lives = StartingLives(difficulty)
  /\ score = 0
  /\ wave = 0
  /\ wave_active = FALSE
  /\ enemies_spawned = 0
  /\ total_enemies = 0
  /\ wave_start_countdown = 0
  /\ game_over = FALSE
  /\ victory = FALSE
  /\ selected_tower_type = "sniper"
  /\ selected_tower = 0
  /\ show_upgrade_menu = FALSE
  /\ enemies = << >>
  /\ enemy_list = << >>
  /\ tower_list \in { << >> } \cup { << tw >> : tw \in OwnedTowers }
  /\ projectile_list = << >>
  /\ timers = << >>
  /\ created = 0
  /\ killed_bounty = 0
  /\ escapes = 0
  /\ crits = 0
  /\ last_outcome = "none"
  /\ view = "game"
  /\ save_file \in { << >> } \cup { << f >> : f \in EditedFiles }
  /\ last_impact = << >>
  /\ CorridorLoaded

LoadNext ==
  \/ KeyS
  \/ KeyEscape
  \/ PauseSelect
  \/ MenuLoad

LoadSpec == LoadInit /\ [][LoadNext]_vars

(***************************************************************************)
(* A session: matches that are paused, left, started and loaded            *)
(***************************************************************************)
\* MenuView.select_item with self.selected == 0, followed by the choice of a
\* difficulty and of the map: GameView(window, difficulty, map), setup()
start_new_game(g, d) ==
  [NewGameView(g, d) EXCEPT !.view = "game", !.last_outcome = "none"]

\* the model follows the construction of a new GameView as long as the clock
\* holds no callback of a GameView that has been replaced before
NoStaleTimer == \A i \in 1..Len(timers) : ~timers[i].stale

\* the player of the session picks the easy or the normal difficulty
MenuNewGame ==
  /\ view = "menu"
  /\ NoStaleTimer
  /\ \E d \in {"easy", "normal"} : Becomes(start_new_game(Match, d))
MenuLoadSave == NoStaleTimer /\ MenuLoad

\* a frame in a view other than the GameView: its on_update is not called, the
\* clock moves on
IdleFrame ==
  /\ view \in {"pause", "menu"}
  /\ timers # << >>
  /\ \A i \in 1..Len(timers) : ~Due(i)
  /\ timers' = ClockAdvance(timers)
  /\ UNCHANGED << difficulty, waves, money, lives, score, wave, wave_active, enemies_spawned,
                  total_enemies, wave_start_countdown, game_over, victory,
                  selected_tower_type, selected_tower, show_upgrade_menu, enemies,
                  enemy_list, tower_list, projectile_list, created, killed_bounty,
                  escapes, crits, last_outcome, view, save_file, last_impact >>
  /\ UNCHANGED map_vars

\* the player of the session starts the first wave of a match and not the
\* later ones
FirstWaveKeySpace == wave = 0 /\ KeySpace

\* in the pause menu the player of the session resumes or leaves for the menu
ResumeOrLeave ==
  view = "pause" /\ \E selected \in {0, 2} : Becomes(select_option(Match, selected))

\* a session starts with a new match; an earlier session may have left the
\* save of a match whose first wave was not started
SessionInit ==
  /\ StartOfMatch
  /\ waves = ModelWaves
  /\ difficulty = "normal"
  /\ view = "game"
  /\ save_file \in {<< >>,
                    << Snapshot([money |-> money, lives |-> lives, score |-> score,
                                 wave |-> wave, difficulty |-> difficulty,
                                 tower_list |-> tower_list]) >>}
  /\ CorridorLoaded

SessionNext ==
  \/ Frame
  \/ IdleFrame
  \/ RunTimer
  \/ FirstWaveKeySpace
  \/ KeyEscape
  \/ ResumeOrLeave
  \/ MenuNewGame
  \/ MenuLoadSave

SessionSpec == SessionInit /\ [][SessionNext]_vars

(***************************************************************************)
(* A tower and the enemies in front of it: find_target and attack          *)
(***************************************************************************)
\* an enemy of the first wave of a normal match somewhere on the path, alive
\* or killed by a tesla tower and left in enemy_list
EnemiesOnPath ==
  { [NewEnemy("slime", 1, "normal") EXCEPT !.pos = pos,
                                           !.path_index = IF pos < TileGap THEN 1 ELSE 2,
                                           !.alive = a,
                                           !.health = IF a THEN @ ELSE 0] :
      pos \in PathPoints[1]..PathPoints[Len(PathPoints)], a \in BOOLEAN }

\* the towers that fire projectiles
ProjectileTowers == { tw \in OwnedTowers : tw.tower_type # "tesla" }

\* the first wave of a normal match is running: one projectile tower without a
\* target, and up to FieldEnemies enemies in enemy_list
TowerInit ==
  /\ difficulty = "normal"
  /\ waves = ModelWaves
  /\ money = StartingMoney(difficulty)
  /\ lives = StartingLives(difficulty)
  /\ score = 0
  /\ wave = 1
  /\ wave_active = TRUE
  /\ enemies \in UNION { [1..n -> EnemiesOnPath] : n \in 0..FieldEnemies }
  /\ enemy_list = [i \in 1..Len(enemies) |-> i]
  /\ enemies_spawned = Len(enemies)
  /\ total_enemies = Len(enemies)
  /\ wave_start_countdown = 0
  /\ game_over = FALSE
  /\ victory = FALSE
  /\ selected_tower_type = "sniper"
  /\ selected_tower = 0
  /\ show_upgrade_menu = FALSE
  /\ tower_list \in { << tw >> : tw \in ProjectileTowers }
  /\ projectile_list = << >>
  /\ timers = << >>
  /\ created = Len(enemies)
  /\ killed_bounty = 0
  /\ escapes = 0
  /\ crits = 0
  /\ last_outcome = "none"
  /\ view = "game"
  /\ save_file = << >>
  /\ last_impact = << >>
  /\ CorridorLoaded

\* self.find_target(enemies) of the tower
Acquire ==
  /\ last_outcome = "none"
  /\ Becomes([Match EXCEPT !.tower_list[1] = find_target(@, Match),
                           !.last_outcome = "targeted"])

\* self.attack(projectiles, ...) of the tower, which has a target; crit is the
\* outcome of random.random() < self.crit_chance
Attack ==
  /\ last_outcome = "targeted"
  /\ tower_list[1].target # 0
  /\ \E crit \in BOOLEAN :
       Becomes([attack(Match, tower_list[1], crit) EXCEPT !.last_outcome = "attacked"])

TowerNext == Acquire \/ Attack

TowerSpec == TowerInit /\ [][TowerNext]_vars

(***************************************************************************)
(* A match loaded from a save with an artillery tower                      *)
(***************************************************************************)
\* the snapshots save_game writes after the first wave of a match in which the
\* player owns one artillery tower of level 1
ArtillerySaves ==
  { [money |-> 0, lives |-> StartingLives(d), score |-> 0, wave |-> 1,
     difficulty |-> d, map_type |-> ModelMapType,
     towers |-> << [tower_type |-> "artillery", spot |-> spot, level |-> 1] >>] :
      d \in Difficulties, spot \in TowerSpots }

\* the program shows its menu and finds such a save file; the fields of the
\* match are those the GameView of the load starts from
SplashInit ==
  /\ StartOfMatch
  /\ waves = ModelWaves
  /\ difficulty = "normal"
  /\ view = "menu"
  /\ save_file \in { << f >> : f \in ArtillerySaves }
  /\ CorridorLoaded

SplashNext ==
  \/ MenuLoad
  \/ Frame
  \/ RunTimer
  \/ KeySpace

SplashSpec == SplashInit /\ [][SplashNext]_vars

(***************************************************************************)
(* The construction of the paths on its own                                *)
(***************************************************************************)
\* level maps of two rows of GridCols cells
SmallMaps == { << top, bottom >> : top, bottom \in [1..GridCols -> CellSymbols] }

\* a GameView before setup(): no path yet; its level map is the one of its
\* map type, or a small level map read as the forest or as the hell map
PathInit ==
  /\ StartOfMatch
  /\ waves = ModelWaves
  /\ difficulty = "normal"
  /\ view = "game"
  /\ save_file = << >>
  /\ \/ map_type \in MapTypes /\ level_map = LevelMapOf(map_type)
     \/ map_type \in {"forest", "hell"} /\ level_map \in SmallMaps
  /\ path_points = << >>
  /\ path_points2 = << >>

\* load_map has run
Loads(m) ==
  /\ map_type' = m.map_type
  /\ level_map' = m.level_map
  /\ path_points' = m.path_points
  /\ path_points2' = m.path_points2
  /\ UNCHANGED match_vars

\* setup() calls load_map
Setup == path_points = << >> /\ Loads(load_map(MapState))
\* on_key_press(F11) calls load_map again
KeyF11 == path_points # << >> /\ Loads(load_map(MapState))

PathNext ==
  \/ Setup
  \/ KeyF11

PathSpec == PathInit /\ [][PathNext]_vars

(***************************************************************************)
(* Properties                                                              *)
(***************************************************************************)
\* the enemies of enemy_list
OnField == { enemies[enemy_list[i]] : i \in 1..Len(enemy_list) }

\* C1: a wave goes from active to cleared only in a tick in which the number
\* of enemies created since its start_wave equals the sum of its archetype
\* counts and enemy_list is empty after the passes of the tick
C1_ClearsOnlyWhenAllCreatedAndFieldEmpty ==
  [][(wave_active /\ ~wave_active') =>
       /\ wave \in 1..Len(waves)
       /\ created = WaveTotal(waves[wave])
       /\ created' = created
       /\ enemy_list' = << >>]_vars

\* a wave has been cleared after all of its enemies were created
C1_Witness ==
  /\ wave = 1
  /\ ~wave_active
  /\ created = WaveTotal(waves[1])
  /\ enemy_list = << >>
  /\ escapes + killed_bounty > 0

\* C2: every enemy is created by a callback of the wave it is counted in, and
\* the enemies of an archetype on the field are at most as many as the map of
\* the current wave lists for it
C2_EnemiesAreOfTheirWave ==
  /\ \A id \in 1..Len(enemies) : enemies[id].timer_wave = enemies[id].level
  /\ \A t \in EnemyTypes :
       Cardinality({ i \in 1..Len(enemy_list) :
                       /\ enemies[enemy_list[i]].enemy_type = t
                       /\ enemies[enemy_list[i]].level = wave })
         <= (IF wave \in 1..Len(waves) THEN waves[wave][t] ELSE 0)

\* C3: once a wave is active, all of its enemies are spawned and no enemy of
\* enemy_list is alive, the wave is eventually cleared (the match is not over,
\* and the frame is one the model follows)
C3_StartedWaveEventuallyClears ==
  ( /\ ~game_over
    /\ wave_active
    /\ enemies_spawned >= total_enemies
    /\ Len(projectile_list) <= MaxProjectiles
    /\ \A e \in OnField : ~e.alive ) ~> ~wave_active

\* C4: between two handlers no enemy of enemy_list is dead, out of health or
\* at the end of its path
C4_NoDeadEnemyOnField ==
  \A e \in OnField : e.alive /\ e.health > 0 /\ ~has_reached_end(e)

\* C5: the score is ten times the sum of the bounties of the enemies killed
C5_ScoreIsTenTimesKilledBounty == score = 10 * killed_bounty

\* C6: lives are the starting lives minus BASE_DAMAGE per escape, an enemy at
\* the end of its path is not left in enemy_list, and game_over holds exactly
\* when lives <= 0
C6_EscapesDebitLives ==
  /\ lives = StartingLives(difficulty) - BASE_DAMAGE * escapes
  /\ game_over <=> lives <= 0
  /\ \A e \in OnField : e.path_index < Len(PathPoints)

\* enemies have escaped and the last escape ended the match
C6_Witness ==
  /\ game_over
  /\ escapes >= 2
  /\ lives + BASE_DAMAGE > 0

\* C7: a tick of a match that is over (game_over or victory) changes none of
\* money, lives, score, wave, wave_active, the spawn counters and the enemy,
\* tower and projectile collections
C7_TickOfFinishedMatchIsNoOp ==
  [][\/ UNCHANGED << money, lives, score, wave, wave_active, enemies_spawned,
                     total_enemies, wave_start_countdown, game_over, victory,
                     enemies, enemy_list, tower_list, projectile_list >>
     \/ ~((game_over \/ victory) /\ Frame)]_vars

\* a tick has run in a match that was won
C7_Witness == victory /\ last_outcome = "frozen_tick" /\ tower_list # << >>

\* C8: a placement on no tower spot, on an occupied spot or without the money
\* for the selected archetype, and an upgrade without the money for the next
\* level, leave money and the towers (their number, levels and stats) as
\* they were
C8_DeniedCommandChangesNothing ==
  [][\/ UNCHANGED << money, tower_list >>
     \/ /\ \A spot \in TowerSpots \cup {-1} : ~(PlacementDenied(spot) /\ ClickField(spot))
        /\ ~(UpgradeDenied /\ show_upgrade_menu /\ ClickUpgrade)]_vars

\* the first of two towers is the selected one: after the second tower was
\* placed, the player clicked the spot the first one occupies
C8_Witness ==
  /\ Len(tower_list) = 2
  /\ selected_tower = 1
  /\ show_upgrade_menu

\* the cost on_mouse_press charges is the cost attribute of the Tower it creates
ChargedCostIsTowerCost ==
  \A t \in TowerTypes : \A spot \in TowerSpots : NewTower(t, spot).cost = PlacementCost(t)

\* C9: the cost charged for an archetype is the cost attribute of its Tower;
\* a step that adds towers appends exactly one new tower of the selected
\* archetype on a free tower spot and takes its cost from money; every tower
\* stands on a tower spot and no two towers stand on the same spot
C9_PlacementAddsOneTowerAtItsCost ==
  [][/\ ChargedCostIsTowerCost
     /\ Len(tower_list') # Len(tower_list) =>
          \E spot \in TowerSpots :
            /\ Occupant(Match, spot) = 0
            /\ money >= NewTower(selected_tower_type, spot).cost
            /\ tower_list' = Append(tower_list, NewTower(selected_tower_type, spot))
            /\ money' = money - NewTower(selected_tower_type, spot).cost
     /\ \A k \in 1..Len(tower_list') :
          /\ tower_list'[k].spot \in TowerSpots
          /\ \A j \in 1..Len(tower_list') : j # k => tower_list'[j].spot # tower_list'[k].spot]_vars

\* both tower spots carry a tower
C9_Witness ==
  /\ Len(tower_list) = Cardinality(TowerSpots)
  /\ { tower_list[k].spot : k \in 1..Len(tower_list) } = TowerSpots

\* C10: money is never negative and no step lowers the score
C10_MoneyNonNegativeScoreMonotonic ==
  [][money >= 0 /\ money' >= 0 /\ score' >= score]_vars

\* the player has placed and upgraded a tower and has scored
C10_Witness ==
  /\ score > 0
  /\ \E k \in 1..Len(tower_list) : tower_list[k].level > 1
  /\ money < StartingMoney(difficulty)

\* C11: upgrade() of a tower at max_level returns 0 and leaves the level, the
\* damage, the range, the fire rate, the upgrade cost and every ability
\* parameter as they are; the level of a tower, before and after an upgrade()
\* call, is within 1..max_level
C11_UpgradeAtMaxLevelIsNoOp ==
  \A k \in 1..Len(tower_list) :
    /\ tower_list[k].level \in 1..MAX_LEVEL
    /\ TowerUpgrade(tower_list[k]).level \in 1..MAX_LEVEL
    /\ tower_list[k].level = MAX_LEVEL =>
         /\ UpgradeReturn(tower_list[k]) = 0
         /\ TowerUpgrade(tower_list[k]) = tower_list[k]

\* a tower saved at max_level has been loaded: every upgrade() call of the
\* load found it at max_level
C11_Witness ==
  /\ last_outcome = "loaded"
  /\ \E k \in 1..Len(tower_list) :
       /\ tower_list[k].level = MAX_LEVEL
       /\ save_file[1].towers[k].level = MAX_LEVEL

\* C12: a tower of level L that save_game wrote into the snapshot is, after the
\* load of that snapshot, a tower of the same archetype, position and level L
\* whose damage, range, fire rate and ability parameters are those of a newly
\* placed tower upgraded L - 1 times
C12_SaveLoadRoundTrip ==
  (last_outcome = "loaded"
     /\ \A k \in 1..Len(save_file[1].towers) : save_file[1].towers[k].tower_type \in TowerTypes)
  => /\ Len(tower_list) = Len(save_file[1].towers)
     /\ \A k \in 1..Len(tower_list) :
          LET entry == save_file[1].towers[k]
              fresh == Upgrades(NewTower(entry.tower_type, entry.spot), entry.level - 1)
          IN /\ tower_list[k].tower_type = entry.tower_type
             /\ tower_list[k].spot = entry.spot
             /\ tower_list[k].level = entry.level
             /\ tower_list[k].damage = fresh.damage
             /\ tower_list[k].range = fresh.range
             /\ tower_list[k].fire_rate640 = fresh.fire_rate640
             /\ tower_list[k].ability = fresh.ability

\* the entries of a snapshot whose archetype is known, in their order
ValidEntries(entries) == SelectSeq(entries, LAMBDA entry : entry.tower_type \in TowerTypes)

\* C13: the load of a snapshot with an unknown archetype, difficulty or map type
\* never ends the program with an exception, and the match it builds holds a
\* tower for every entry of a known archetype and none for the others
C13_LoadSkipsUnknownValues ==
  /\ view # "crashed"
  /\ last_outcome = "loaded" =>
       /\ Len(tower_list) = Len(ValidEntries(save_file[1].towers))
       /\ \A k \in 1..Len(tower_list) :
            /\ tower_list[k].tower_type = ValidEntries(save_file[1].towers)[k].tower_type
            /\ tower_list[k].spot = ValidEntries(save_file[1].towers)[k].spot

\* the route find_path_bfs returns from the k-th start cell of a level map to
\* its end cell, << >> when a cell is missing or no route is found
FoundRoute(lm, k) ==
  IF Len(StartPositions(lm)) >= k /\ EndCell(lm) # << >>
  THEN find_path_bfs(StartPositions(lm)[k], EndCell(lm), PointCells(lm))
  ELSE << >>

\* C14: a route that find_path_bfs finds starts at the start cell, ends at the
\* end cell, consists of path, start and end cells of the map, holds no cell
\* twice, and every two consecutive cells of it are neighbours in one of the
\* four directions; create_single_path makes the points of the route of the
\* first start cell the path
C14_RouteIsSimplePathOfPointCells ==
  \A k \in 1..2 :
    LET path == FoundRoute(level_map, k)
    IN path # << >> =>
         /\ path[1] = StartPositions(level_map)[k]
         /\ path[Len(path)] = EndCell(level_map)
         /\ \A i \in 1..Len(path) :
              /\ path[i] \in (0..(Len(level_map[1]) - 1)) \X (0..(Len(level_map) - 1))
              /\ CellAt(level_map, path[i]) \in {"#", "S", "E"}
         /\ \A i, j \in 1..Len(path) : i # j => path[i] # path[j]
         /\ \A i \in 1..(Len(path) - 1) :
              Abs(path[i + 1][1] - path[i][1]) + Abs(path[i + 1][2] - path[i][2]) = 1
         /\ (k = 1 /\ path_points # << >>) => path_points = PointsOf(path)

\* the forest map is loaded: its route winds through more cells than the map
\* has rows
C14_Witness ==
  /\ level_map = ForestMap
  /\ FoundRoute(level_map, 1) # << >>
  /\ Len(path_points) > Len(ForestMap)

\* the least number of steps in the four directions from a set of cells to a
\* cell through the cells of a map, -1 when there is no such walk
\* a set of cells and the cells of a map that are one step away from it
OneStepFrom(reached, cells) ==
  reached \cup { c \in cells : \E r \in reached :
                                 Abs(c[1] - r[1]) + Abs(c[2] - r[2]) = 1 }

RECURSIVE StepsTo(_, _, _, _)
StepsTo(reached, end, cells, n) ==
  IF end \in reached THEN n
  ELSE LET one == OneStepFrom(reached, cells)
       IN IF one = reached THEN -1
          ELSE IF end \in one THEN n + 1
          ELSE LET two == OneStepFrom(one, cells)
               IN IF two = one THEN -1
                  ELSE IF end \in two THEN n + 2
                  ELSE LET three == OneStepFrom(two, cells)
                       IN IF three = two THEN -1
                          ELSE StepsTo(three, end, cells, n + 3)

\* the cells of a straight line between two cells of one row or one column
Between(a, b) ==
  { c \in (Min(a[1], b[1])..Max(a[1], b[1])) \X (Min(a[2], b[2])..Max(a[2], b[2])) : TRUE }

\* C15: a route that find_path_bfs finds has as many cells as the shortest
\* walk in the four directions from the start cell to the end cell has; when
\* start and end lie in one row or column and every cell between them is a
\* path cell, that is their Manhattan distance plus one
C15_RouteIsShortest ==
  \A k \in 1..2 :
    LET path == FoundRoute(level_map, k)
        start == StartPositions(level_map)[k]
        end == EndCell(level_map)
    IN path # << >> =>
         /\ Len(path) = StepsTo({ start }, end, PointCells(level_map), 0) + 1
         /\ (k = 1 /\ path_points # << >>) =>
              Len(path_points) = StepsTo({ start }, end, PointCells(level_map), 0) + 1
         /\ ((start[1] = end[1] \/ start[2] = end[2])
               /\ Between(start, end) \subseteq PointCells(level_map))
            => Len(path) = Abs(start[1] - end[1]) + Abs(start[2] - end[2]) + 1

\* a small map without tower spots is loaded: besides the route that was found
\* there are longer ways to the end
C15_Witness ==
  /\ level_map \in SmallMaps
  /\ Cardinality(PointCells(level_map)) = 2 * GridCols
  /\ FoundRoute(level_map, 1) # << >>
  /\ Len(path_points) >= 3
  /\ Len(path_points) < 2 * GridCols

\* C16: after load_map the path has at least two points; when the map has no
\* start cell or no end cell, or find_path_bfs finds no route, the path is the
\* segment of two points from the start to the end (the default start or end
\* where the map has none), and so is the second path of the hell map when
\* enemies are spawned on it
C16_FallbackIsTwoPointSegment ==
  path_points # << >> =>
    LET starts == StartPositions(level_map)
        end_anchor == IF EndCell(level_map) = << >> THEN DefaultEnd
                      ELSE PointOf(EndCell(level_map))
    IN /\ Len(path_points) >= 2
       /\ FoundRoute(level_map, 1) = << >> =>
            path_points = << IF starts = << >> THEN DefaultStart ELSE PointOf(starts[1]),
                             end_anchor >>
       /\ (map_type = "hell" /\ Len(path_points2) > 0 /\ FoundRoute(level_map, 2) = << >>) =>
            path_points2 = << PointOf(starts[2]), end_anchor >>

\* the hell map with two start cells from neither of which the end cell can be
\* reached
C16_Witness ==
  /\ map_type = "hell"
  /\ Len(StartPositions(level_map)) >= 2
  /\ EndCell(level_map) # << >>
  /\ FoundRoute(level_map, 1) = << >>
  /\ FoundRoute(level_map, 2) = << >>
  /\ Len(path_points) = 2
  /\ Len(path_points2) = 2

\* distance <= splash radius, the distance in world units of the model and the
\* radius in those of the source
WithinSplash(radius, dist) == dist * TILE_SIZE <= radius * TileGap

\* C17: in a tick in which one artillery projectile hits, every other enemy
\* that was alive on the field, has no armour and is within the splash radius
\* of the point of the hit loses the damage of the projectile times the splash
\* damage percent of the tower
C17_SplashDamagesEnemiesInRadius ==
  [][\/ Len(last_impact') # 1
     \/ \A i \in 1..Len(enemy_list') :
          LET id == enemy_list'[i]
              hit == last_impact'[1]
          IN (/\ id \notin hit.hits
              /\ id \in Range(enemy_list)
              /\ enemies[id].alive
              /\ EnemyStats(enemies[id].enemy_type).armor100 = 0
              /\ WithinSplash(hit.aoe_radius, Abs(enemies'[id].pos - hit.pos)))
             => enemies'[id].health =
                  enemies[id].health
                    - (hit.damage * tower_list[1].ability.splash_damage_percent10) \div 10
     \/ ~Frame]_vars

\* C18: in a tick of a running match every enemy that is in enemy_list when the
\* tick starts is advanced by one Enemy.update and tested for its escape: it
\* is removed when the update brings it to the end of the path, and otherwise,
\* as long as it stays in enemy_list, it is where one update puts it
C18_EveryEnemyAdvancedOncePerTick ==
  [][\/ game_over \/ victory
     \/ \A i \in 1..Len(enemy_list) :
          LET id == enemy_list[i]
              e == EnemyUpdate(enemies[id])
          IN IF has_reached_end(e)
             THEN id \notin Range(enemy_list')
             ELSE id \in Range(enemy_list') =>
                    /\ enemies'[id].pos = e.pos
                    /\ enemies'[id].path_index = e.path_index
     \/ ~Frame]_vars

\* C19: the health of an enemy never increases; an enemy is alive exactly
\* when its health is above 0, so it stops being alive in the step in which
\* its health first is 0 or less, and never is alive again; an enemy that is
\* not alive is not damaged any more (the enemies are those some list, tower or
\* projectile still refers to)
C19_HealthFallsAliveFollows ==
  [][/\ \A id \in 1..Len(enemies') :
          enemies'[id] # Garbage => (enemies'[id].alive <=> enemies'[id].health > 0)
     /\ \A id \in 1..Len(enemies) :
          (id <= Len(enemies') /\ enemies'[id] # Garbage) =>
            /\ enemies[id].alive <=> enemies[id].health > 0
            /\ enemies'[id].health <= enemies[id].health
            /\ ~enemies[id].alive =>
                 /\ ~enemies'[id].alive
                 /\ enemies'[id].health = enemies[id].health]_vars

\* an enemy a tesla tower has killed lies in enemy_list next to an enemy that
\* is alive and has been damaged
C19_Witness ==
  /\ \E e \in OnField : ~e.alive /\ e.health <= 0
  /\ \E e \in OnField :
       e.alive /\ e.health < EnemyHealth(e.enemy_type, e.level, difficulty)

\* C20: once the player has left a match for the menu, no callback that a
\* start_wave of the match has registered runs any more: as long as the menu
\* is shown no enemy is created and no spawn counter changes
C20_NoSpawnAfterMatchIsLeft ==
  [][(view = "menu" /\ view' = "menu") =>
       /\ enemy_list' = enemy_list
       /\ enemies_spawned' = enemies_spawned
       /\ created' = created]_vars

\* C21: a projectile that is consumed in a tick has struck exactly one enemy:
\* take_damage was called on one alive enemy of its hit_list and on no other
C21_ProjectileStrikesOneAliveEnemy ==
  \A i \in 1..Len(last_impact) : Cardinality(last_impact[i].struck) = 1

\* C22: a tower other than a tesla that fires in a tick (its fire_timer is
\* back at 0) fires at a target that, when the enemies of the tick have moved,
\* is in enemy_list, alive and within the range of the tower
C22_TowerFiresAtEnemyOnField ==
  [][\/ game_over \/ victory
     \/ \A k \in 1..Len(tower_list) :
          (/\ tower_list'[k].tower_type # "tesla"
           /\ tower_list'[k].fire_timer = 0
           /\ tower_list'[k].target # 0)
          => LET moved == EnemyPass(Match, 1)
                 id == tower_list'[k].target
             IN /\ id \in Range(moved.enemy_list)
                /\ moved.enemies[id].alive
                /\ WithinRange(tower_list[k], Abs(tower_list[k].spot - moved.enemies[id].pos))
     \/ ~Frame]_vars

\* the places in enemy_list of the enemies a tower can choose from: alive,
\* with health left, and no further from the tower than its range
InRangeAlive(tw) ==
  { i \in 1..Len(enemy_list) :
      /\ enemies[enemy_list[i]].alive
      /\ enemies[enemy_list[i]].health > 0
      /\ WithinRange(tw, Abs(tw.spot - enemies[enemy_list[i]].pos)) }

\* C23: find_target leaves the tower without a target when no alive enemy is
\* within its range (a distance equal to the range is within it, as in the
\* fire check), and otherwise with the first enemy of enemy_list among those
\* alive enemies within range that are nearest to the tower
C23_FindTargetIsNearestInRange ==
  last_outcome = "targeted" =>
    LET tw == tower_list[1]
        far(i) == Abs(tw.spot - enemies[enemy_list[i]].pos)
        nearest == { i \in InRangeAlive(tw) : \A j \in InRangeAlive(tw) : far(i) <= far(j) }
    IN IF InRangeAlive(tw) = { } THEN tw.target = 0
       ELSE /\ tw.target # 0
            /\ \E i \in nearest : enemy_list[i] = tw.target /\ \A j \in nearest : i <= j

\* C24: an attack of a rocket tower of any level puts missile_count
\* projectiles into projectile_list, all homing, an attack of another
\* projectile tower one that is not homing; all are aimed at the target of the
\* tower
C24_RocketEmitsMissileCount ==
  last_outcome = "attacked" =>
    LET tw == tower_list[1] IN
    /\ Len(projectile_list) = IF tw.tower_type = "rocket" THEN tw.ability.missile_count ELSE 1
    /\ \A j \in 1..Len(projectile_list) :
         /\ projectile_list[j].target = tw.target
         /\ projectile_list[j].homing <=> tw.tower_type = "rocket"

\* C25: under continued ticking no projectile stays in projectile_list for
\* ever: again and again the list is empty (or holds more projectiles than the
\* model follows)
C25_EveryProjectileIsEventuallyRemoved ==
  []<>(projectile_list = << >> \/ Len(projectile_list) > MaxProjectiles)

\* a running match between two waves: no wave is active, no enemy is on the
\* field and a wave remains
BetweenWaves ==
  /\ ~game_over /\ ~victory
  /\ ~wave_active
  /\ enemy_list = << >>
  /\ wave < Len(waves)

\* C26: between two waves of a running match the next wave is eventually
\* started (as long as the frames are ones the model follows); a tick there
\* arms the countdown at the delay when it is not running, and otherwise lets
\* it run by one frame and starts the next wave when it reaches zero; a tick in
\* which a wave is active sets the countdown to 0 and starts no wave
C26_AutoStartCountsDownAndStarts ==
  /\ (BetweenWaves /\ Len(projectile_list) <= MaxProjectiles)
       ~> (wave_active \/ Len(projectile_list) > MaxProjectiles)
  /\ [][\/ /\ BetweenWaves
           /\ IF wave_start_countdown <= 0
              THEN wave_start_countdown' = AutoDelayFrames /\ wave' = wave /\ ~wave_active'
              ELSE IF wave_start_countdown - 1 <= 0
                   THEN wave_start_countdown' = 0 /\ wave' = wave + 1 /\ wave_active'
                   ELSE /\ wave_start_countdown' = wave_start_countdown - 1
                        /\ wave' = wave /\ ~wave_active'
        \/ /\ ~BetweenWaves
           /\ wave_start_countdown' = 0
           /\ wave' = wave
        \/ ~Frame]_vars

\* the countdown has started the second wave: the callbacks of the wave are
\* registered, the first has not run, and the frame of the start has passed
C26_Witness ==
  /\ wave = 2 /\ wave_active /\ enemy_list = << >>
  /\ \E i \in 1..Len(timers) : timers[i].wave = 2 /\ timers[i].interval = 0
  /\ \E i \in 1..Len(timers) :
       /\ timers[i].wave = 2 /\ timers[i].interval > 0
       /\ timers[i].remaining = timers[i].interval - 1

\* C27: the wave index changes only by a start of the next wave: no wave is
\* active before, the index was below the number of waves and goes up by
\* exactly one, and the wave is active afterwards; the index never exceeds the
\* number of waves
C27_WavesStartOneAtATimeInOrder ==
  [][/\ wave' # wave =>
          /\ ~wave_active
          /\ wave < Len(waves)
          /\ wave' = wave + 1
          /\ wave_active'
     /\ (~wave_active /\ wave_active') => wave' = wave + 1
     /\ wave' <= Len(waves)]_vars

\* the last wave has been started after the first one was cleared
C27_Witness == wave = Len(waves) /\ wave_active /\ enemies_spawned < total_enemies

\* C28: a match is never lost and won at once
C28_GameOverAndVictoryExclusive == ~(game_over /\ victory)

(***************************************************************************)
(* A hard match on its own table: the player's commands after game over    *)
(***************************************************************************)
\* GameView(window, Difficulty.HARD) followed by setup(): the waves are those
\* generate_waves returns for a hard match
HardInit ==
  /\ StartOfMatch
  /\ difficulty = "hard"
  /\ waves = generate_waves(difficulty)
  /\ view = "game"
  /\ save_file = << >>
  /\ CorridorLoaded

\* the model follows the clock of a hard match through its first wave, until
\* the match is lost; the player of this match clicks and presses SPACE before
\* the first wave and after the match is lost
HardNext ==
  \/ (wave <= 1 /\ ~game_over) /\ Frame
  \/ (wave <= 1 /\ ~game_over) /\ RunTimer
  \/ (wave = 0 \/ game_over) /\ MouseWaveButton
  \/ (wave = 0 \/ game_over) /\ MouseUpgradeButton
  \/ (wave = 0 \/ game_over) /\ MouseField
  \/ (wave = 0 \/ game_over) /\ KeySpace

HardSpec == HardInit /\ [][HardNext]_vars

\* a command of the player that the match receives
PlayerCommand == MouseField \/ MouseUpgradeButton \/ MouseWaveButton \/ KeySpace

\* C29: once the match is over, a click on the field, on the upgrade button or
\* on the wave button and a press of SPACE leave money, the towers, the wave
\* index, wave_active and the scheduled spawns as they were
C29_NoCommandAfterGameOver ==
  [][\/ ~game_over
     \/ /\ money' = money
        /\ tower_list' = tower_list
        /\ wave' = wave
        /\ wave_active' = wave_active
        /\ timers' = timers
     \/ ~PlayerCommand]_vars

\* C30: after load_save the wave table of the match is the one generate_waves
\* returns for the difficulty of the snapshot, and the next start_wave takes
\* the counts of its wave from that table
C30_LoadedTableIsOfLoadedDifficulty ==
  last_outcome = "loaded" =>
    /\ waves = generate_waves(difficulty)
    /\ wave < Len(waves) =>
         \A shuffled \in NextShuffles :
           start_wave(Match, shuffled).total_enemies
             = WaveTotal(generate_waves(difficulty)[wave + 1])
====
